---- MODULE Spec2Model ----
(***************************************************************************)
(* VoiceOS command execution engine: the AgentKernel retry loop           *)
(* (perceive -> plan -> execute -> verify), the SafetyGuard confirmation   *)
(* gate and its single pending-confirmation slot, the UICache coordinate   *)
(* cache and the HybridRouter that routes click utterances to the cached,  *)
(* text-search (OCR) or full-visual (VLM) tier.                            *)
(*                                                                         *)
(* Utterances are sequences of whitespace-separated words; the regular     *)
(* expressions of the source (all of them word-bounded or whitespace       *)
(* delimited) are evaluated on the words.  Replies to a confirmation       *)
(* prompt are sequences of characters, because the source tests them with  *)
(* the substring operator.                                                 *)
(***************************************************************************)
EXTENDS Integers, Sequences, FiniteSets, TLC

(* ---------------------------------------------------------------------- *)
(* Program constants and bounds                                            *)
(* ---------------------------------------------------------------------- *)

MAX_RETRIES == 3

\* Largest x / y a planned coordinate click starts from.
MaxCoord == 1

Sessions == {1, 2}

NoElement == -1

(* ---------------------------------------------------------------------- *)
(* Strings                                                                 *)
(* ---------------------------------------------------------------------- *)

\* str.lower() on the words and characters that occur in the model.
Lower(w) ==
    CASE w = "Delete" -> "delete"
      [] w = "Quit"   -> "quit"
      [] w = "Safari" -> "safari"
      [] w = "Submit" -> "submit"
      [] w = "Save"   -> "save"
      [] w = "Back"   -> "back"
      [] w = "Click"  -> "click"
      [] w = "Calculator" -> "calculator"
      [] w = "S"      -> "s"
      [] w = "C"      -> "c"
      [] w = "Y"      -> "y"
      [] w = "N"      -> "n"
      [] OTHER        -> w

LowerSeq(s) == [i \in 1..Len(s) |-> Lower(s[i])]

\* needle occurs in hay as a contiguous run (Python: needle in hay).
Contains(hay, needle) ==
    \E i \in 1..(Len(hay) + 1) :
        /\ i + Len(needle) - 1 <= Len(hay)
        /\ SubSeq(hay, i, i + Len(needle) - 1) = needle

Digits == {"0", "1", "2", "3", "4"}

\* int(group) for the numerals that occur in the model.
ToInt(w) ==
    CASE w = "0" -> 0 [] w = "1" -> 1 [] w = "2" -> 2 [] w = "3" -> 3
      [] w = "4" -> 4 [] OTHER -> NoElement

(* ---------------------------------------------------------------------- *)
(* SafetyGuard: classification                                             *)
(* ---------------------------------------------------------------------- *)

\* Each pattern is an alternation of phrases between word boundaries.
SENSITIVE_PATTERNS ==
    << { <<"delete">>, <<"remove">>, <<"trash">>, <<"erase">>, <<"clear">>, <<"empty">> },
       { <<"send">>, <<"submit">>, <<"post">>, <<"publish">>, <<"share">> },
       { <<"pay">>, <<"purchase">>, <<"buy">>, <<"transfer">>, <<"checkout">>, <<"order">> },
       { <<"quit">>, <<"shutdown">>, <<"restart">>, <<"reboot">>, <<"logout">>,
         <<"signout">>, <<"close", "all">> },
       { <<"format">>, <<"wipe">>, <<"reset">>, <<"uninstall">>, <<"permanently">> } >>

SAFE_PATTERNS ==
    << { <<"open">>, <<"view">>, <<"show">>, <<"read">>, <<"look">>, <<"find">>,
         <<"search">>, <<"scroll">>, <<"navigate">> },
       { <<"copy">>, <<"select">>, <<"highlight">> } >>

\* pattern.search(command) with re.IGNORECASE.
PatternSearch(pattern, command) ==
    \E phrase \in pattern : Contains(LowerSeq(command), phrase)

\* Faulty variant: the sensitive patterns are tried before the safe ones.
requires_confirmation_sensitive_first(command) ==
    \E i \in 1..Len(SENSITIVE_PATTERNS) : PatternSearch(SENSITIVE_PATTERNS[i], command)

requires_confirmation(command) ==
    IF \E i \in 1..Len(SAFE_PATTERNS) : PatternSearch(SAFE_PATTERNS[i], command)
    THEN FALSE
    ELSE \E i \in 1..Len(SENSITIVE_PATTERNS) : PatternSearch(SENSITIVE_PATTERNS[i], command)

\* The phrase the prompt names the action with; the prompt is "I'm about to
\* <phrase>. Say 'Confirm' to proceed or 'Cancel' to stop."
get_confirmation_prompt(command) ==
    IF Contains(LowerSeq(command), <<"delete">>) THEN "delete this"
    ELSE IF Contains(LowerSeq(command), <<"send">>) THEN "send this"
    ELSE IF Contains(LowerSeq(command), <<"quit">>) THEN "quit this application"
    ELSE IF Contains(LowerSeq(command), <<"pay">>) \/ Contains(LowerSeq(command), <<"purchase">>)
         THEN "complete this payment"
    ELSE IF Contains(LowerSeq(command), <<"submit">>) THEN "submit this"
    ELSE "perform this action"

(* ---------------------------------------------------------------------- *)
(* SafetyGuard: reply parsing                                              *)
(* ---------------------------------------------------------------------- *)

ConfirmWords ==
    { <<"c","o","n","f","i","r","m">>, <<"y","e","s">>, <<"p","r","o","c","e","e","d">>,
      <<"g","o"," ","a","h","e","a","d">>, <<"d","o"," ","i","t">>, <<"o","k","a","y">> }

CancelWords ==
    { <<"c","a","n","c","e","l">>, <<"n","o">>, <<"s","t","o","p">>, <<"a","b","o","r","t">>,
      <<"n","e","v","e","r"," ","m","i","n","d">>, <<"d","o","n","'","t">> }

RECURSIVE LStrip(_)
LStrip(s) == IF Len(s) > 0 /\ Head(s) = " " THEN LStrip(Tail(s)) ELSE s

RECURSIVE RStrip(_)
RStrip(s) ==
    IF Len(s) > 0 /\ s[Len(s)] = " " THEN RStrip(SubSeq(s, 1, Len(s) - 1)) ELSE s

\* Faulty variant: the cancel words are tried before the confirm words.
parse_confirmation_response_cancel_first(response) ==
    LET response_lower == RStrip(LStrip(LowerSeq(response)))
    IN  IF \E word \in CancelWords : Contains(response_lower, word) THEN "cancelled"
        ELSE IF \E word \in ConfirmWords : Contains(response_lower, word) THEN "confirmed"
        ELSE "unclear"

\* Optional[bool] as "confirmed" (True), "cancelled" (False), "unclear" (None).
parse_confirmation_response(response) ==
    LET response_lower == RStrip(LStrip(LowerSeq(response)))
    IN  IF \E word \in ConfirmWords : Contains(response_lower, word) THEN "confirmed"
        ELSE IF \E word \in CancelWords : Contains(response_lower, word) THEN "cancelled"
        ELSE "unclear"

(* ---------------------------------------------------------------------- *)
(* AgentKernel: data                                                       *)
(* ---------------------------------------------------------------------- *)

\* AgentAction.  None is NoElement for target_element, <<>> for coordinates,
\* text and shortcut, "" for direction.
AgentAction(type, elem, coords, text, shortcut, direction) ==
    [action_type |-> type, target_element |-> elem, coordinates |-> coords,
     text |-> text, shortcut |-> shortcut, direction |-> direction]

NoAction == AgentAction("none", NoElement, <<>>, <<>>, <<>>, "")

\* A message: fixed text, then an interpolated number and interpolated words.
Msg(text, num, words) == [text |-> text, num |-> num, words |-> words]

NoMsg == Msg("", 0, <<>>)

\* AgentResult; raised marks an exception that left the entry point instead
\* of a returned result.
AgentResult(success, message, action_taken, attempts, verified, needs_conf, prompt) ==
    [success |-> success, message |-> message, action_taken |-> action_taken,
     attempts |-> attempts, verification_passed |-> verified,
     needs_confirmation |-> needs_conf,
     confirmation_prompt |-> prompt, raised |-> FALSE]

NoResult == AgentResult(FALSE, NoMsg, NoAction, 0, FALSE, FALSE, NoMsg)

Raised == [NoResult EXCEPT !.raised = TRUE]

\* ParsedContext: element_map is numbered 1..n; focused 0 is None.
ParsedContext(element_map, focused) ==
    [element_map |-> element_map, focused_element_number |-> focused]

NoContext == ParsedContext(<<>>, 0)

\* Python truthiness of an Optional[int].
Truthy(n) == n # NoElement /\ n # 0

(* ---------------------------------------------------------------------- *)
(* AgentKernel._plan                                                       *)
(* ---------------------------------------------------------------------- *)

\* Index of the word after an optional filler word at position j.
SkipOpt(w, j, filler) == IF j < Len(w) /\ w[j] = filler THEN j + 1 ELSE j

\* click\s+(?:on\s+)?(?:element\s+)?(\d+) matched at word i.
ClickNumberAt(w, i) ==
    /\ w[i] = "click"
    /\ LET j == SkipOpt(w, SkipOpt(w, i + 1, "on"), "element")
       IN  j <= Len(w) /\ w[j] \in Digits

ClickNumber(w) ==
    LET i == CHOOSE k \in 1..Len(w) :
                 ClickNumberAt(w, k) /\ \A m \in 1..(k - 1) : ~ClickNumberAt(w, m)
    IN  ToInt(w[SkipOpt(w, SkipOpt(w, i + 1, "on"), "element")])

\* First word of `keyword` that is followed by at least one more word.
HasKeyword(w, keyword) == \E i \in 1..(Len(w) - 1) : w[i] = keyword

KeywordAt(w, keyword) ==
    CHOOSE i \in 1..(Len(w) - 1) :
        w[i] = keyword /\ \A m \in 1..(i - 1) : w[m] # keyword

\* click\s+(?:on\s+)?(?:the\s+)?(.+?)(?:\s+button)?$ : group 1.
ClickLabel(w) ==
    LET j    == SkipOpt(w, SkipOpt(w, KeywordAt(w, "click") + 1, "on"), "the")
        rest == SubSeq(w, j, Len(w))
    IN  IF Len(rest) >= 2 /\ rest[Len(rest)] = "button"
        THEN SubSeq(rest, 1, Len(rest) - 1)
        ELSE rest

\* Elements whose lowered label contains the label, in mapping order.
LabelMatches(label, context) ==
    { num \in 1..Len(context.element_map) :
        Contains(LowerSeq(context.element_map[num]), label) }

Min(S) == CHOOSE x \in S : \A y \in S : x <= y

ScrollDirections == {"up", "down", "left", "right"}

HasScroll(w) ==
    \E i \in 1..(Len(w) - 1) : w[i] = "scroll" /\ w[i + 1] \in ScrollDirections

ScrollDirection(w) ==
    w[(CHOOSE i \in 1..(Len(w) - 1) :
          /\ w[i] = "scroll" /\ w[i + 1] \in ScrollDirections
          /\ \A m \in 1..(i - 1) :
                ~(w[m] = "scroll" /\ w[m + 1] \in ScrollDirections)) + 1]

\* The pattern matching of _plan, reached when the gate lets the command pass.
PatternPlan(command_lower, context) ==
    IF \E i \in 1..Len(command_lower) : ClickNumberAt(command_lower, i)
    THEN AgentAction("click", ClickNumber(command_lower), <<>>, <<>>, <<>>, "")
    ELSE IF /\ HasKeyword(command_lower, "click")
            /\ LabelMatches(ClickLabel(command_lower), context) # {}
    THEN AgentAction("click", Min(LabelMatches(ClickLabel(command_lower), context)),
                     <<>>, <<>>, <<>>, "")
    ELSE IF HasKeyword(command_lower, "type")
    THEN AgentAction("type", NoElement, <<>>,
                     SubSeq(command_lower, KeywordAt(command_lower, "type") + 1,
                            Len(command_lower)), <<>>, "")
    ELSE IF HasScroll(command_lower)
    THEN AgentAction("scroll", NoElement, <<>>, <<>>, <<>>,
                     ScrollDirection(command_lower))
    ELSE IF HasKeyword(command_lower, "press")
    THEN AgentAction("shortcut", NoElement, <<>>, <<>>,
                     SubSeq(command_lower, KeywordAt(command_lower, "press") + 1,
                            Len(command_lower)), "")
    ELSE AgentAction("unknown", NoElement, <<>>, <<>>, <<>>, "")

\* Faulty variant: the planner does not consult the gate.
_plan_ungated(voice_command, context) ==
    PatternPlan(LowerSeq(voice_command), context)

_plan(voice_command, context) ==
    IF requires_confirmation(voice_command)
    THEN AgentAction("confirm_required", NoElement, <<>>, voice_command, <<>>, "")
    ELSE PatternPlan(LowerSeq(voice_command), context)

(* ---------------------------------------------------------------------- *)
(* AgentKernel._execute, _verify, _adjust_strategy, messages               *)
(* ---------------------------------------------------------------------- *)

\* One call on the input-injection collaborator (the OS controller).
InjCall(call, elem, xy, words) == [call |-> call, elem |-> elem, xy |-> xy, words |-> words]

NoCall == InjCall("none", NoElement, <<>>, <<>>)

\* Faulty variant: a click by number is sent to the controller without
\* looking the number up in the element map.
_execute_unchecked(action, context) ==
    CASE action.action_type = "click" ->
            IF Truthy(action.target_element)
            THEN InjCall("click_element", action.target_element, <<>>, <<>>)
            ELSE IF action.coordinates # <<>>
            THEN InjCall("click", NoElement, action.coordinates, <<>>)
            ELSE NoCall
      [] action.action_type = "double_click" ->
            IF /\ Truthy(action.target_element)
               /\ action.target_element \in 1..Len(context.element_map)
            THEN InjCall("double_click", action.target_element, <<>>, <<>>)
            ELSE NoCall
      [] action.action_type = "type" ->
            IF action.text # <<>>
            THEN InjCall("type_text", NoElement, <<>>, action.text)
            ELSE NoCall
      [] action.action_type = "shortcut" ->
            IF action.shortcut # <<>>
            THEN InjCall("press_shortcut", NoElement, <<>>, action.shortcut)
            ELSE NoCall
      [] action.action_type = "scroll" ->
            IF action.direction # ""
            THEN InjCall("scroll", NoElement, <<>>, <<action.direction>>)
            ELSE NoCall
      [] OTHER -> NoCall

\* The controller call _execute makes for the action, NoCall when it
\* returns False without reaching the controller.
_execute(action, context) ==
    CASE action.action_type = "click" ->
            IF /\ Truthy(action.target_element)
               /\ action.target_element \in 1..Len(context.element_map)
            THEN InjCall("click_element", action.target_element, <<>>, <<>>)
            ELSE IF action.coordinates # <<>>
            THEN InjCall("click", NoElement, action.coordinates, <<>>)
            ELSE NoCall
      [] action.action_type = "double_click" ->
            IF /\ Truthy(action.target_element)
               /\ action.target_element \in 1..Len(context.element_map)
            THEN InjCall("double_click", action.target_element, <<>>, <<>>)
            ELSE NoCall
      [] action.action_type = "type" ->
            IF action.text # <<>>
            THEN InjCall("type_text", NoElement, <<>>, action.text)
            ELSE NoCall
      [] action.action_type = "shortcut" ->
            IF action.shortcut # <<>>
            THEN InjCall("press_shortcut", NoElement, <<>>, action.shortcut)
            ELSE NoCall
      [] action.action_type = "scroll" ->
            IF action.direction # ""
            THEN InjCall("scroll", NoElement, <<>>, <<action.direction>>)
            ELSE NoCall
      [] OTHER -> NoCall

\* Faulty variant: a click on a mapped element is verified only if the
\* screen or the focus changed.
_verify_strict(action, old_context, new_context) ==
    IF /\ action.action_type = "click"
       /\ Truthy(action.target_element)
       /\ action.target_element \in 1..Len(old_context.element_map)
    THEN \/ Len(new_context.element_map) # Len(old_context.element_map)
         \/ new_context.focused_element_number # old_context.focused_element_number
    ELSE TRUE

\* _verify once the re-perceive has returned new_context.
_verify(action, old_context, new_context) ==
    IF action.action_type = "click"
    THEN IF /\ Truthy(action.target_element)
            /\ action.target_element \in 1..Len(old_context.element_map)
         THEN IF Len(new_context.element_map) # Len(old_context.element_map)
              THEN TRUE
              ELSE IF new_context.focused_element_number
                        # old_context.focused_element_number
              THEN TRUE
              ELSE TRUE
         ELSE TRUE
    ELSE IF action.action_type = "type" THEN TRUE
    ELSE IF action.action_type \in {"scroll", "shortcut"} THEN TRUE
    ELSE TRUE

_adjust_strategy(action, attempt) ==
    IF action.action_type = "click" /\ action.coordinates # <<>>
    THEN LET offset == attempt * 5
         IN  [action EXCEPT !.coordinates =
                 <<action.coordinates[1] + offset, action.coordinates[2] + offset>>]
    ELSE action

_generate_success_message(action) ==
    CASE action.action_type = "click" ->
            IF Truthy(action.target_element)
            THEN Msg("Clicked element", action.target_element, <<>>)
            ELSE Msg("Clicked successfully", 0, <<>>)
      [] action.action_type = "type"     -> Msg("Typed:", 0, action.text)
      [] action.action_type = "scroll"   -> Msg("Scrolled", 0, <<action.direction>>)
      [] action.action_type = "shortcut" -> Msg("Pressed", 0, action.shortcut)
      [] OTHER -> Msg("Action completed", 0, <<>>)

(* ---------------------------------------------------------------------- *)
(* AgentKernel.process_command: results and loop conditions                *)
(* ---------------------------------------------------------------------- *)

\* Faulty variant: the confirmation result always reports one attempt.
ConfirmationResult_one_attempt(action, attempt) ==
    AgentResult(FALSE, Msg("Confirmation needed:", 0, action.text), action, 1,
                FALSE, TRUE,
                Msg("I'm about to ... Say 'Confirm' or 'Cancel'.", 0, action.text))

ConfirmationResult(action, attempt) ==
    AgentResult(FALSE, Msg("Confirmation needed:", 0, action.text), action, attempt,
                FALSE, TRUE,
                Msg("I'm about to ... Say 'Confirm' or 'Cancel'.", 0, action.text))

ExecuteFailedResult(action, attempt) ==
    AgentResult(FALSE, Msg("Failed to execute after ... attempts", attempt, <<>>),
                action, attempt, FALSE, FALSE, NoMsg)

\* Faulty variant: the success result leaves verification_passed at its
\* default.
SuccessResult_unverified(action, attempt) ==
    AgentResult(TRUE, _generate_success_message(action), action, attempt,
                FALSE, FALSE, NoMsg)

SuccessResult(action, attempt) ==
    AgentResult(TRUE, _generate_success_message(action), action, attempt,
                TRUE, FALSE, NoMsg)

ErrorResult(e, attempt) ==
    AgentResult(FALSE, Msg("Error:", 0, <<e>>), NoAction, attempt, FALSE, FALSE, NoMsg)

ExhaustedResult ==
    AgentResult(FALSE,
                Msg("I'm having trouble completing this action. Is the target visible on screen?",
                    0, <<>>),
                NoAction, MAX_RETRIES, FALSE, FALSE, NoMsg)

\* Faulty variant: the retry budget is cut one attempt short.
RetryAfterFailure_early(attempt) == attempt < MAX_RETRIES - 1

\* if attempt < self.MAX_RETRIES
RetryAfterFailure(attempt) == attempt < MAX_RETRIES

\* if attempt >= self.MAX_RETRIES
BudgetExhausted(attempt) == attempt >= MAX_RETRIES

\* for attempt in range(1, self.MAX_RETRIES + 1): another iteration follows.
HasNextAttempt(attempt) == attempt + 1 < MAX_RETRIES + 1

(* ---------------------------------------------------------------------- *)
(* AgentKernel.process_with_confirmation: results                          *)
(* ---------------------------------------------------------------------- *)

\* Faulty variant: attempts is left at its default of 1.
CancelledResult_default_attempts ==
    AgentResult(FALSE, Msg("Action cancelled.", 0, <<>>), NoAction, 1, FALSE, FALSE, NoMsg)

CancelledResult ==
    AgentResult(FALSE, Msg("Action cancelled.", 0, <<>>), NoAction, 0, FALSE, FALSE, NoMsg)

ConfirmedResult(execute_success, action) ==
    AgentResult(execute_success,
                IF execute_success THEN Msg("Action confirmed and executed.", 0, <<>>)
                                   ELSE Msg("Action failed.", 0, <<>>),
                action, 1, FALSE, FALSE, NoMsg)

\* action.action_type = ActionType.CLICK
ForceClick(action) == [action EXCEPT !.action_type = "click"]

(* ---------------------------------------------------------------------- *)
(* Inputs                                                                  *)
(* ---------------------------------------------------------------------- *)

Commands ==
    { <<"Delete", "this", "file">>,
      <<"click", "the", "submit", "button">>,
      <<"click", "submit">>,
      <<"click", "element", "1">>,
      <<"click", "4">>,
      <<"click", "the", "save", "button">>,
      <<"type", "hello">>,
      <<"scroll", "down">>,
      <<"press", "cmd", "c">>,
      <<"open", "and", "delete", "file">>,
      <<"hello", "there">> }

\* A screen whose element 3 is the Submit button; element 1 has the focus.
SubmitScreen == ParsedContext(<< <<"Back">>, <<"Save", "As">>, <<"Submit">> >>, 1)

\* Screens the sensing collaborator may report.
Contexts ==
    { ParsedContext(<<>>, 0),
      ParsedContext(<< <<"Save">> >>, 0),
      SubmitScreen }

Replies ==
    { <<"y", "e", "s">>,
      <<"C", "a", "n", "c", "e", "l">>,
      <<"n", "o">>,
      <<"y", "e", "s", " ", "s", "t", "o", "p">>,
      <<"i", " ", "k", "n", "o", "w">>,
      <<"w", "h", "a", "t", "?">> }

\* What a controller call may do: return True, return False, raise.
Outcomes == {"ok", "fail", "raise"}

(* ---------------------------------------------------------------------- *)
(* UICache: data                                                           *)
(* ---------------------------------------------------------------------- *)

\* self.ttl, in clock ticks.
ttl == 2

\* Last value of the clock.
MaxTime == 2

\* Most get calls made on the cache.
MaxGets == 2

\* Application names and element targets passed to the cache.
Apps == {"Calculator", "calculator", "Safari"}

CacheTargets == { <<"S","u","b","m","i","t">>, <<"s","u","b","m","i","t">> }

\* Screen coordinates (x, y).
Points == { <<1, 2>>, <<3, 4>> }

\* Optional[str] None for invalidate's app_name.
NoApp == "None"

\* Cache value (x, y, timestamp).
\* Faulty variant: the coordinates are stored transposed.
CacheEntry_transposed(x, y, timestamp) == [x |-> y, y |-> x, timestamp |-> timestamp]

CacheEntry(x, y, timestamp) == [x |-> x, y |-> y, timestamp |-> timestamp]

\* The empty dict.
EmptyCache == [k \in {} |-> CacheEntry(0, 0, 0)]

\* Faulty variant: the key keeps the letter case of its arguments.
CacheKey_exact(app_name, target) == <<app_name, target>>

CacheKey(app_name, target) == <<Lower(app_name), LowerSeq(target)>>

\* self.cache[key] = value
DictSet(c, key, value) == [k \in DOMAIN c \cup {key} |-> IF k = key THEN value ELSE c[k]]

\* del self.cache[key]
DictDel(c, key) == [k \in DOMAIN c \ {key} |-> c[k]]

\* Optional[Tuple[int, int]] None.
NoCoords == <<>>

\* Faulty variant: an entry is served whatever its age.
UICache_get_no_ttl(c, h, m, t, app_name, target) ==
    LET key == CacheKey(app_name, target)
    IN  IF key \in DOMAIN c
        THEN [cache |-> c, hits |-> h + 1, misses |-> m, ret |-> <<c[key].x, c[key].y>>]
        ELSE [cache |-> c, hits |-> h, misses |-> m + 1, ret |-> NoCoords]

\* UICache.get at clock value t: the cache and counters it leaves, and the
\* value it returns.
UICache_get(c, h, m, t, app_name, target) ==
    LET key == CacheKey(app_name, target)
    IN  IF key \in DOMAIN c
        THEN IF t - c[key].timestamp < ttl
             THEN [cache |-> c, hits |-> h + 1, misses |-> m,
                   ret |-> <<c[key].x, c[key].y>>]
             ELSE [cache |-> DictDel(c, key), hits |-> h, misses |-> m + 1,
                   ret |-> NoCoords]
        ELSE [cache |-> c, hits |-> h, misses |-> m + 1, ret |-> NoCoords]

\* Faulty variant: an existing entry is kept (first writer wins).
UICache_set_keeps_first(c, t, app_name, target, x, y) ==
    IF CacheKey(app_name, target) \in DOMAIN c THEN c
    ELSE DictSet(c, CacheKey(app_name, target), CacheEntry(x, y, t))

\* UICache.set at clock value t: the cache it leaves.
UICache_set(c, t, app_name, target, x, y) ==
    DictSet(c, CacheKey(app_name, target), CacheEntry(x, y, t))

\* Faulty variant: the application name is compared as given.
UICache_invalidate_exact(c, app_name) ==
    IF app_name = NoApp
    THEN [cache |-> EmptyCache, ret |-> Cardinality(DOMAIN c)]
    ELSE LET keys_to_remove == { k \in DOMAIN c : k[1] = app_name }
         IN  [cache |-> [k \in DOMAIN c \ keys_to_remove |-> c[k]],
              ret |-> Cardinality(keys_to_remove)]

\* UICache.invalidate: the cache it leaves and the count it returns.
UICache_invalidate(c, app_name) ==
    IF app_name = NoApp
    THEN [cache |-> EmptyCache, ret |-> Cardinality(DOMAIN c)]
    ELSE LET keys_to_remove == { k \in DOMAIN c : k[1] = Lower(app_name) }
         IN  [cache |-> [k \in DOMAIN c \ keys_to_remove |-> c[k]],
              ret |-> Cardinality(keys_to_remove)]

\* What a cache call returned: get the coordinates or NoCoords, invalidate
\* the count, set nothing.
CacheRet(call, app_name, target, ret) ==
    [call |-> call, app_name |-> app_name, target |-> target, ret |-> ret]

NoCacheRet == CacheRet("none", "", <<>>, <<>>)

\* The frame of a UICache call that runs statement by statement: the
\* method, the source line it executes next (0: not inside a call), its
\* arguments and locals, whether the entry of its key was expired when it
\* was called, whether it ended by raising, and how many get calls of the
\* session have returned.
Frame(call, line, app_name, target, key, entry, keys_to_remove, expired, raised, completed) ==
    [call |-> call, line |-> line, app_name |-> app_name, target |-> target,
     key |-> key, entry |-> entry, keys_to_remove |-> keys_to_remove,
     expired |-> expired, raised |-> raised, completed |-> completed]

NoFrame == Frame("none", 0, "", <<>>, <<>>, CacheEntry(0, 0, 0), {}, FALSE, FALSE, 0)

(* ---------------------------------------------------------------------- *)
(* HybridRouter: routing                                                   *)
(* ---------------------------------------------------------------------- *)

\* Router utterances, like replies, are sequences of characters: the click
\* patterns are anchored regular expressions and the complexity indicators
\* are tested with the substring operator.

COMPLEX_INDICATORS ==
    { <<"t","h","i","r","d">>,
      <<"s","e","c","o","n","d">>,
      <<"f","i","r","s","t">>,
      <<"l","a","s","t">>,
      <<"n","e","x","t">>,
      <<"p","r","e","v","i","o","u","s">>,
      <<"r","e","d">>,
      <<"b","l","u","e">>,
      <<"g","r","e","e","n">>,
      <<"l","a","r","g","e">>,
      <<"s","m","a","l","l">>,
      <<"i","c","o","n">>,
      <<"i","m","a","g","e">>,
      <<"p","i","c","t","u","r","e">>,
      <<"p","h","o","t","o">>,
      <<"l","o","g","o">> }

StartsWith(s, prefix) == Len(s) >= Len(prefix) /\ SubSeq(s, 1, Len(prefix)) = prefix

EndsWith(s, suffix) ==
    Len(s) >= Len(suffix) /\ SubSeq(s, Len(s) - Len(suffix) + 1, Len(s)) = suffix

Drop(s, n) == SubSeq(s, n + 1, Len(s))

\* ^verb\s+ followed by at least one more character: what follows the white
\* space, or <<>> when the utterance does not match.
AfterVerb(utterance, verb) ==
    IF StartsWith(utterance, verb) /\ StartsWith(Drop(utterance, Len(verb)), <<" ">>)
    THEN LStrip(Drop(utterance, Len(verb)))
    ELSE <<>>

\* (?:word\s+)? in front of a group that needs at least one character.
OptionalWord(rest, word) ==
    IF /\ StartsWith(rest, word)
       /\ StartsWith(Drop(rest, Len(word)), <<" ">>)
       /\ LStrip(Drop(rest, Len(word))) # <<>>
    THEN LStrip(Drop(rest, Len(word)))
    ELSE rest

\* (.+?)(?:\s+button)?$ : the shortest group that leaves nothing or a final
\* "button" set off by white space.
BeforeButton(rest) ==
    LET button == <<"b","u","t","t","o","n">>
        group  == RStrip(SubSeq(rest, 1, Len(rest) - Len(button)))
    IN  IF /\ EndsWith(rest, <<" ">> \o button)
           /\ group # <<>>
        THEN group
        ELSE rest

\* The first of CLICK_PATTERNS that matches gives the target; <<>> is None.
_extract_click_target(utterance) ==
    LET click  == AfterVerb(utterance, <<"c","l","i","c","k">>)
        tap    == AfterVerb(utterance, <<"t","a","p">>)
        press  == AfterVerb(utterance, <<"p","r","e","s","s">>)
        select == AfterVerb(utterance, <<"s","e","l","e","c","t">>)
        on     == <<"o","n">>
        the    == <<"t","h","e">>
    IN  IF click # <<>> THEN RStrip(LStrip(OptionalWord(OptionalWord(click, on), the)))
        ELSE IF tap # <<>> THEN RStrip(LStrip(OptionalWord(OptionalWord(tap, on), the)))
        ELSE IF press # <<>> THEN RStrip(LStrip(BeforeButton(OptionalWord(press, the))))
        ELSE IF select # <<>> THEN RStrip(LStrip(select))
        ELSE <<>>

_needs_vlm(target) ==
    \E indicator \in COMPLEX_INDICATORS : Contains(LowerSeq(target), indicator)

\* ExecutionPlan; None is <<>> for target, coordinates and utterance.
ExecutionPlan(method, target, coordinates, utterance) ==
    [method |-> method, target |-> target, coordinates |-> coordinates,
     utterance |-> utterance]

NoPlan == ExecutionPlan("none", <<>>, <<>>, <<>>)

\* Targets another client of the cache writes entries for.
SeedTargets == { <<"t","h","i","r","d"," ","i","c","o","n">>,
                 <<"s","u","b","m","i","t">> }

\* Utterances given to the router.
RouterUtterances ==
    { <<"c","l","i","c","k"," ","s","u","b","m","i","t">>,
      <<"C","l","i","c","k"," ","t","h","e"," ","S","u","b","m","i","t">>,
      <<"c","l","i","c","k"," ","t","h","e"," ","t","h","i","r","d"," ","i","c","o","n">>,
      <<"p","r","e","s","s"," ","t","h","e"," ","s","u","b","m","i","t"," ","b","u","t","t","o","n">>,
      <<"t","a","p"," ","o","n"," ","c","r","e","d","i","t">>,
      <<"s","c","r","o","l","l"," ","d","o","w","n">> }

\* The part of route that depends on the utterance alone (lines 74-81): the
\* click target extracted from the lowered, stripped utterance and whether
\* it needs visual understanding.
Extracted ==
    [u \in RouterUtterances |->
        LET target == _extract_click_target(RStrip(LStrip(LowerSeq(u))))
        IN  [target |-> target, needs_vlm |-> target # <<>> /\ _needs_vlm(target)]]

\* Faulty variant: the cache is consulted before the complexity check.
route_cache_first(c, h, m, t, utterance, app_name) ==
    LET target == Extracted[utterance].target
        got    == UICache_get(c, h, m, t, app_name, target)
        same   == [cache |-> c, hits |-> h, misses |-> m]
    IN  IF target # <<>>
        THEN IF got.ret # NoCoords
             THEN [plan |-> ExecutionPlan("cached", target, got.ret, <<>>),
                   cache |-> got.cache, hits |-> got.hits, misses |-> got.misses]
             ELSE IF Extracted[utterance].needs_vlm
                  THEN [plan |-> ExecutionPlan("vlm", <<>>, <<>>, utterance),
                        cache |-> got.cache, hits |-> got.hits, misses |-> got.misses]
                  ELSE [plan |-> ExecutionPlan("ocr", target, <<>>, <<>>),
                        cache |-> got.cache, hits |-> got.hits, misses |-> got.misses]
        ELSE [plan |-> ExecutionPlan("vlm", <<>>, <<>>, utterance)] @@ same

\* HybridRouter.route at clock value t: the plan it returns and the cache
\* and counters it leaves.
route(c, h, m, t, utterance, app_name) ==
    LET target == Extracted[utterance].target
        got    == UICache_get(c, h, m, t, app_name, target)
        same   == [cache |-> c, hits |-> h, misses |-> m]
    IN  IF target # <<>>
        THEN IF Extracted[utterance].needs_vlm
             THEN [plan |-> ExecutionPlan("vlm", <<>>, <<>>, utterance)] @@ same
             ELSE IF got.ret # NoCoords
                  THEN [plan |-> ExecutionPlan("cached", target, got.ret, <<>>),
                        cache |-> got.cache, hits |-> got.hits, misses |-> got.misses]
                  ELSE [plan |-> ExecutionPlan("ocr", target, <<>>, <<>>),
                        cache |-> got.cache, hits |-> got.hits, misses |-> got.misses]
        ELSE [plan |-> ExecutionPlan("vlm", <<>>, <<>>, utterance)] @@ same

(* ---------------------------------------------------------------------- *)
(* HybridRouter: execution                                                 *)
(* ---------------------------------------------------------------------- *)

\* What requests.post gives back: it raises, or returns a response with a
\* status (ok) and a body that is JSON or not; the JSON body of the
\* text-search service carries success and, possibly, the coordinates
\* (xy = <<>>: no "x" / "y").
HttpResponse(raises, ok, is_json, success, xy) ==
    [raises |-> raises, ok |-> ok, is_json |-> is_json, success |-> success, xy |-> xy]

Responses ==
    { HttpResponse(TRUE, FALSE, FALSE, FALSE, <<>>),
      HttpResponse(FALSE, FALSE, FALSE, FALSE, <<>>),
      HttpResponse(FALSE, TRUE, TRUE, FALSE, <<>>) }
        \cup { HttpResponse(FALSE, TRUE, TRUE, TRUE, xy) : xy \in Points \cup {<<>>} }

\* A call of requests.post: the endpoint, and the coordinates or the query.
Post(endpoint, xy, query) == [endpoint |-> endpoint, xy |-> xy, query |-> query]

\* The dict execute returns; raised marks an exception that left execute
\* instead of a returned dict.
RouterResult(success, message, method) ==
    [success |-> success, message |-> message, method |-> method, raised |-> FALSE]

NoRouterResult == RouterResult(FALSE, "", "none")

\* What a tier does: the dict it returns or the exception it raises
\* (raised), the cache it leaves and the posts it made.
TierOutcome(res, raised, c, posts) ==
    [result |-> res, raised |-> raised, cache |-> c, posts |-> posts]

\* Faulty variant: the cached tier resolves its target through text search.
_execute_cached_text_search(plan, response, c) ==
    LET posts == << Post("/api/click-text", <<>>, plan.target) >>
    IN  IF response.raises
        THEN TierOutcome(NoRouterResult, TRUE, c, posts)
        ELSE IF response.ok
        THEN TierOutcome(RouterResult(TRUE, "Clicked ... [CACHED]", "cached"), FALSE, c, posts)
        ELSE TierOutcome(RouterResult(FALSE, "response.text", "cached"), FALSE, c, posts)

_execute_cached(plan, response, c) ==
    LET posts == << Post("/api/click", plan.coordinates, <<>>) >>
    IN  IF plan.coordinates = <<>>
        THEN TierOutcome(NoRouterResult, TRUE, c, <<>>)
        ELSE IF response.raises
        THEN TierOutcome(NoRouterResult, TRUE, c, posts)
        ELSE IF response.ok
        THEN TierOutcome(RouterResult(TRUE, "Clicked ... [CACHED]", "cached"), FALSE, c, posts)
        ELSE TierOutcome(RouterResult(FALSE, "response.text", "cached"), FALSE, c, posts)

\* Faulty variant: a successful text search is not written to the cache.
_execute_ocr_no_cache(plan, app_name, response, c, t) ==
    LET posts == << Post("/api/click-text", <<>>, plan.target) >>
    IN  IF response.raises \/ ~response.is_json
        THEN TierOutcome(NoRouterResult, TRUE, c, posts)
        ELSE IF response.success
        THEN TierOutcome(RouterResult(TRUE, "Clicked ... via OCR", "ocr"), FALSE, c, posts)
        ELSE TierOutcome(RouterResult(FALSE, "OCR failed", "ocr"), FALSE, c, posts)

_execute_ocr(plan, app_name, response, c, t) ==
    LET posts == << Post("/api/click-text", <<>>, plan.target) >>
    IN  IF response.raises \/ ~response.is_json
        THEN TierOutcome(NoRouterResult, TRUE, c, posts)
        ELSE IF response.success
        THEN TierOutcome(RouterResult(TRUE, "Clicked ... via OCR", "ocr"), FALSE,
                         IF response.xy # <<>>
                         THEN UICache_set(c, t, app_name, plan.target,
                                          response.xy[1], response.xy[2])
                         ELSE c,
                         posts)
        ELSE TierOutcome(RouterResult(FALSE, "OCR failed", "ocr"), FALSE, c, posts)

\* Faulty variant: the full-visual tier reports success.
_execute_vlm_succeeds(plan, c) ==
    TierOutcome(RouterResult(TRUE, "VLM execution not implemented", "vlm"), FALSE, c, <<>>)

_execute_vlm(plan, c) ==
    TierOutcome(RouterResult(FALSE, "VLM execution not implemented", "vlm"), FALSE, c, <<>>)

\* Faulty variant: a cached click that fails or raises evicts its entry.
ExecuteTier_evicts(plan, app_name, response, c, t) ==
    IF plan.method = "cached"
    THEN LET tier == _execute_cached(plan, response, c)
         IN  IF tier.raised \/ ~tier.result.success
             THEN [tier EXCEPT !.cache =
                      [k \in DOMAIN c \ {CacheKey(app_name, plan.target)} |-> c[k]]]
             ELSE tier
    ELSE IF plan.method = "ocr" THEN _execute_ocr(plan, app_name, response, c, t)
    ELSE _execute_vlm(plan, c)

\* The tier plan.method selects.
ExecuteTier(plan, app_name, response, c, t) ==
    IF plan.method = "cached" THEN _execute_cached(plan, response, c)
    ELSE IF plan.method = "ocr" THEN _execute_ocr(plan, app_name, response, c, t)
    ELSE _execute_vlm(plan, c)

\* Faulty variant: an exception raised by the tier leaves execute.
execute_propagates(plan, app_name, response, c, t) ==
    LET tier == ExecuteTier(plan, app_name, response, c, t)
    IN  IF tier.raised
        THEN [tier EXCEPT !.result = [NoRouterResult EXCEPT !.raised = TRUE]]
        ELSE tier

\* HybridRouter.execute at clock value t.
execute(plan, app_name, response, c, t) ==
    LET tier == ExecuteTier(plan, app_name, response, c, t)
    IN  IF tier.raised
        THEN [tier EXCEPT !.result = RouterResult(FALSE, "str(e)", plan.method),
                          !.raised = FALSE]
        ELSE tier

(* ---------------------------------------------------------------------- *)
(* State                                                                   *)
(* ---------------------------------------------------------------------- *)

VARIABLES
    sessions,      \* the sessions that issue commands
    planner,       \* <<>>: AgentKernel._plan; <<x, y>>: a planner answering
                   \* every safe utterance with a click at (x, y)
    pc,            \* per session: position in the entry point it is running
    op,            \* per session: the entry point it is running
    cmd,           \* per session: voice_command
    confirmedArg,  \* per session: confirmed
    attempt,       \* per session: loop variable of process_command
    context,       \* per session: context of the current attempt
    action,        \* per session: action of the current attempt
    result,        \* per session: the AgentResult returned
    perceives,     \* per session: get_context calls made by the entry point
    plans,         \* per session: _plan calls made by the entry point
    injLog,        \* per session: controller calls made, with their outcome
    pending,       \* SafetyGuard._pending_confirmation
    gateRet,       \* per session: last value a SafetyGuard call returned to it
    cache,         \* UICache.cache
    hits,          \* UICache.hits
    misses,        \* UICache.misses
    now,           \* time.time()
    cacheRet,      \* per session: last value a UICache call returned to it
    plan,          \* per session: the ExecutionPlan route returned to it
    routerRes,     \* per session: what execute returned to it
    posts,         \* per session: the requests.post calls of its last execute
    frame          \* per session: the UICache call it is inside, statement
                   \* by statement

sessVars == <<pc, op, cmd, confirmedArg, attempt, context, action, result,
              perceives, plans, injLog>>

gateVars == <<pending, gateRet>>

cacheVars == <<cache, hits, misses, now, cacheRet>>

routerVars == <<plan, routerRes, posts>>

vars == <<sessions, planner, pc, op, cmd, confirmedArg, attempt, context, action,
          result, perceives, plans, injLog, pending, gateRet, cache, hits, misses,
          now, cacheRet, plan, routerRes, posts, frame>>

\* Optional[str]: set = FALSE is None.
Pending(command) == [set |-> TRUE, command |-> command]

NoPending == [set |-> FALSE, command |-> <<>>]

GateRet(call, arg, ret) == [call |-> call, arg |-> arg, ret |-> ret]

has_pending_confirmation == pending.set

get_pending_command == pending

InitCommon ==
    /\ pc = [s \in Sessions |-> "idle"]
    /\ op = [s \in Sessions |-> "none"]
    /\ cmd = [s \in Sessions |-> <<>>]
    /\ confirmedArg = [s \in Sessions |-> FALSE]
    /\ attempt = [s \in Sessions |-> 0]
    /\ context = [s \in Sessions |-> NoContext]
    /\ action = [s \in Sessions |-> NoAction]
    /\ result = [s \in Sessions |-> NoResult]
    /\ perceives = [s \in Sessions |-> 0]
    /\ plans = [s \in Sessions |-> 0]
    /\ injLog = [s \in Sessions |-> <<>>]
    /\ pending = NoPending
    /\ gateRet = [s \in Sessions |-> GateRet("none", <<>>, "")]
    /\ cache = EmptyCache
    /\ hits = 0
    /\ misses = 0
    /\ now = 0
    /\ cacheRet = [s \in Sessions |-> NoCacheRet]
    /\ plan = [s \in Sessions |-> NoPlan]
    /\ routerRes = [s \in Sessions |-> NoRouterResult]
    /\ posts = [s \in Sessions |-> <<>>]
    /\ frame = [s \in Sessions |-> NoFrame]

Init ==
    /\ sessions = {1}
    /\ planner = <<>>
    /\ InitCommon

(* ---------------------------------------------------------------------- *)
(* Steps shared by the entry points                                        *)
(* ---------------------------------------------------------------------- *)

\* A planner that answers every utterance the gate lets pass with a fresh
\* click action at the coordinates held in planner.
CoordinatePlanner(voice_command, ctx) ==
    IF requires_confirmation(voice_command)
    THEN AgentAction("confirm_required", NoElement, <<>>, voice_command, <<>>, "")
    ELSE AgentAction("click", NoElement, planner, <<>>, <<>>, "")

\* action = await self._plan(voice_command, context)
PlannedAction(voice_command, ctx) ==
    IF planner = <<>>
    THEN _plan(voice_command, ctx)
    ELSE CoordinatePlanner(voice_command, ctx)

\* return r
Finish(s, r) ==
    /\ pc' = [pc EXCEPT ![s] = "done"]
    /\ result' = [result EXCEPT ![s] = r]
    /\ UNCHANGED attempt

\* Faulty variant: the next attempt plans from the context it already has.
Continue_skips_perceive(s) ==
    IF HasNextAttempt(attempt[s])
    THEN /\ attempt' = [attempt EXCEPT ![s] = @ + 1]
         /\ pc' = [pc EXCEPT ![s] = "plan"]
         /\ UNCHANGED result
    ELSE Finish(s, ExhaustedResult)

\* End of one loop iteration: the next attempt, or the return after the loop.
Continue(s) ==
    IF HasNextAttempt(attempt[s])
    THEN /\ attempt' = [attempt EXCEPT ![s] = @ + 1]
         /\ pc' = [pc EXCEPT ![s] = "perceive"]
         /\ UNCHANGED result
    ELSE Finish(s, ExhaustedResult)

\* Faulty variant: the exception leaves process_command.
HandleException_propagates(s, e) == Finish(s, Raised)

\* except Exception as e
HandleException(s, e) ==
    IF BudgetExhausted(attempt[s])
    THEN Finish(s, ErrorResult(e, attempt[s]))
    ELSE Continue(s)

\* Faulty variant: the controller is called twice for one execute.
Injected_twice(s, call, outcome) ==
    injLog' = [injLog EXCEPT ![s] =
                  Append(Append(@, [call |-> call, ok |-> outcome = "ok", attempt |-> attempt[s]]),
                         [call |-> call, ok |-> outcome = "ok", attempt |-> attempt[s]])]

\* The controller call of _execute, logged with its outcome and the attempt
\* that made it.
Injected(s, call, outcome) ==
    injLog' = [injLog EXCEPT ![s] =
                  Append(@, [call |-> call, ok |-> outcome = "ok", attempt |-> attempt[s]])]

(* ---------------------------------------------------------------------- *)
(* AgentKernel.process_command                                             *)
(* ---------------------------------------------------------------------- *)

ProcessCommand(s, voice_command) ==
    /\ s \in sessions
    /\ pc[s] = "idle"
    /\ pc' = [pc EXCEPT ![s] = "perceive"]
    /\ op' = [op EXCEPT ![s] = "process_command"]
    /\ cmd' = [cmd EXCEPT ![s] = voice_command]
    /\ attempt' = [attempt EXCEPT ![s] = 1]
    /\ UNCHANGED <<sessions, planner, frame, routerVars, cacheVars, confirmedArg,
                   context, action, result,
                   perceives, plans, injLog, gateVars>>

Perceive(s) ==
    /\ pc[s] = "perceive"
    /\ perceives' = [perceives EXCEPT ![s] = @ + 1]
    /\ \/ \E ctx \in Contexts :
            /\ context' = [context EXCEPT ![s] = ctx]
            /\ pc' = [pc EXCEPT ![s] = "plan"]
            /\ UNCHANGED <<attempt, result>>
       \/ /\ HandleException(s, "sensing")
          /\ UNCHANGED context
    /\ UNCHANGED <<sessions, planner, frame, routerVars, cacheVars, op, cmd,
                   confirmedArg, action, plans, injLog,
                   gateVars>>

\* Faulty variant: the planned action is kept in one attribute of the
\* kernel, which every command in flight reads.
Plan_shared_action(s) ==
    /\ pc[s] = "plan"
    /\ plans' = [plans EXCEPT ![s] = @ + 1]
    /\ LET planned == PlannedAction(cmd[s], context[s])
       IN  /\ action' = [o \in Sessions |-> planned]
           /\ IF planned.action_type = "confirm_required"
              THEN Finish(s, ConfirmationResult(planned, attempt[s]))
              ELSE /\ pc' = [pc EXCEPT ![s] = "execute"]
                   /\ UNCHANGED <<attempt, result>>
    /\ UNCHANGED <<sessions, planner, frame, routerVars, cacheVars, op, cmd,
                   confirmedArg, context, perceives,
                   injLog, gateVars>>

Plan(s) ==
    /\ pc[s] = "plan"
    /\ plans' = [plans EXCEPT ![s] = @ + 1]
    /\ LET planned == PlannedAction(cmd[s], context[s])
       IN  /\ action' = [action EXCEPT ![s] = planned]
           /\ IF planned.action_type = "confirm_required"
              THEN Finish(s, ConfirmationResult(planned, attempt[s]))
              ELSE /\ pc' = [pc EXCEPT ![s] = "execute"]
                   /\ UNCHANGED <<attempt, result>>
    /\ UNCHANGED <<sessions, planner, frame, routerVars, cacheVars, op, cmd,
                   confirmedArg, context, perceives,
                   injLog, gateVars>>

\* if not execute_success
ExecuteFailed(s) ==
    IF RetryAfterFailure(attempt[s])
    THEN /\ action' = [action EXCEPT ![s] = _adjust_strategy(@, attempt[s])]
         /\ Continue(s)
    ELSE /\ Finish(s, ExecuteFailedResult(action[s], attempt[s]))
         /\ UNCHANGED action

Execute(s) ==
    /\ pc[s] = "execute"
    /\ LET call == _execute(action[s], context[s])
       IN  IF call = NoCall
           THEN /\ ExecuteFailed(s)
                /\ UNCHANGED injLog
           ELSE \E outcome \in Outcomes :
                   /\ Injected(s, call, outcome)
                   /\ IF outcome = "ok"
                      THEN /\ pc' = [pc EXCEPT ![s] = "verify"]
                           /\ UNCHANGED <<attempt, result, action>>
                      ELSE ExecuteFailed(s)
    /\ UNCHANGED <<sessions, planner, frame, routerVars, cacheVars, op, cmd,
                   confirmedArg, context, perceives,
                   plans, gateVars>>

Verify(s) ==
    /\ pc[s] = "verify"
    /\ perceives' = [perceives EXCEPT ![s] = @ + 1]
    /\ \/ \E new_context \in Contexts :
            IF _verify(action[s], context[s], new_context)
            THEN /\ Finish(s, SuccessResult(action[s], attempt[s]))
                 /\ UNCHANGED action
            ELSE IF RetryAfterFailure(attempt[s])
            THEN /\ action' = [action EXCEPT ![s] = _adjust_strategy(@, attempt[s])]
                 /\ Continue(s)
            ELSE /\ Continue(s)
                 /\ UNCHANGED action
       \/ /\ HandleException(s, "sensing")
          /\ UNCHANGED action
    /\ UNCHANGED <<sessions, planner, frame, routerVars, cacheVars, op, cmd,
                   confirmedArg, context, plans, injLog,
                   gateVars>>

(* ---------------------------------------------------------------------- *)
(* AgentKernel.process_with_confirmation                                   *)
(* ---------------------------------------------------------------------- *)

ProcessWithConfirmation(s, voice_command, confirmed) ==
    /\ s \in sessions
    /\ pc[s] = "idle"
    /\ op' = [op EXCEPT ![s] = "process_with_confirmation"]
    /\ cmd' = [cmd EXCEPT ![s] = voice_command]
    /\ confirmedArg' = [confirmedArg EXCEPT ![s] = confirmed]
    /\ IF ~confirmed
       THEN Finish(s, CancelledResult)
       ELSE /\ pc' = [pc EXCEPT ![s] = "confirm_perceive"]
            /\ UNCHANGED <<attempt, result>>
    /\ UNCHANGED <<sessions, planner, frame, routerVars, cacheVars, context, action,
                   perceives, plans, injLog,
                   gateVars>>

ConfirmPerceive(s) ==
    /\ pc[s] = "confirm_perceive"
    /\ perceives' = [perceives EXCEPT ![s] = @ + 1]
    /\ \/ \E ctx \in Contexts :
            /\ context' = [context EXCEPT ![s] = ctx]
            /\ pc' = [pc EXCEPT ![s] = "confirm_plan"]
            /\ UNCHANGED <<attempt, result>>
       \/ /\ Finish(s, Raised)
          /\ UNCHANGED context
    /\ UNCHANGED <<sessions, planner, frame, routerVars, cacheVars, op, cmd,
                   confirmedArg, action, plans, injLog,
                   gateVars>>

ConfirmPlan(s) ==
    /\ pc[s] = "confirm_plan"
    /\ plans' = [plans EXCEPT ![s] = @ + 1]
    /\ action' = [action EXCEPT ![s] = ForceClick(PlannedAction(cmd[s], context[s]))]
    /\ pc' = [pc EXCEPT ![s] = "confirm_execute"]
    /\ UNCHANGED <<sessions, planner, frame, routerVars, cacheVars, op, cmd,
                   confirmedArg, attempt, context, result,
                   perceives, injLog, gateVars>>

ConfirmExecute(s) ==
    /\ pc[s] = "confirm_execute"
    /\ LET call == _execute(action[s], context[s])
       IN  IF call = NoCall
           THEN /\ Finish(s, ConfirmedResult(FALSE, action[s]))
                /\ UNCHANGED injLog
           ELSE \E outcome \in Outcomes :
                   /\ Injected(s, call, outcome)
                   /\ Finish(s, ConfirmedResult(outcome = "ok", action[s]))
    /\ UNCHANGED <<sessions, planner, frame, routerVars, cacheVars, op, cmd,
                   confirmedArg, context, action,
                   perceives, plans, gateVars>>

\* The caller has taken the result; the session is free for its next call.
Return(s) ==
    /\ pc[s] = "done"
    /\ pc' = [pc EXCEPT ![s] = "idle"]
    /\ op' = [op EXCEPT ![s] = "none"]
    /\ cmd' = [cmd EXCEPT ![s] = <<>>]
    /\ confirmedArg' = [confirmedArg EXCEPT ![s] = FALSE]
    /\ attempt' = [attempt EXCEPT ![s] = 0]
    /\ context' = [context EXCEPT ![s] = NoContext]
    /\ action' = [action EXCEPT ![s] = NoAction]
    /\ result' = [result EXCEPT ![s] = NoResult]
    /\ perceives' = [perceives EXCEPT ![s] = 0]
    /\ plans' = [plans EXCEPT ![s] = 0]
    /\ injLog' = [injLog EXCEPT ![s] = <<>>]
    /\ UNCHANGED <<sessions, planner, frame, routerVars, cacheVars, gateVars>>

(* ---------------------------------------------------------------------- *)
(* SafetyGuard entry points                                                *)
(* ---------------------------------------------------------------------- *)

RequiresConfirmation(s, command) ==
    /\ s \in sessions
    /\ gateRet' = [gateRet EXCEPT ![s] =
                       GateRet("requires_confirmation", command,
                               IF requires_confirmation(command) THEN "true" ELSE "false")]
    /\ UNCHANGED <<sessions, planner, frame, routerVars, cacheVars, sessVars, pending>>

\* Faulty variant: a decisive reply clears the pending slot.
ParseConfirmationResponse_clears(s, response) ==
    /\ s \in sessions
    /\ gateRet' = [gateRet EXCEPT ![s] =
                       GateRet("parse_confirmation_response", response,
                               parse_confirmation_response(response))]
    /\ pending' = IF parse_confirmation_response(response) = "unclear"
                  THEN pending ELSE NoPending
    /\ UNCHANGED <<sessions, planner, frame, routerVars, cacheVars, sessVars>>

ParseConfirmationResponse(s, response) ==
    /\ s \in sessions
    /\ gateRet' = [gateRet EXCEPT ![s] =
                       GateRet("parse_confirmation_response", response,
                               parse_confirmation_response(response))]
    /\ UNCHANGED <<sessions, planner, frame, routerVars, cacheVars, sessVars, pending>>

\* Faulty variant: a command already pending is kept and the new one dropped.
RequestConfirmation_keeps_first(s, command) ==
    /\ s \in sessions
    /\ pending' = IF pending.set THEN pending ELSE Pending(command)
    /\ gateRet' = [gateRet EXCEPT ![s] =
                       GateRet("request_confirmation", command,
                               get_confirmation_prompt(command))]
    /\ UNCHANGED <<sessions, planner, frame, routerVars, cacheVars, sessVars>>

\* speak() starts the speech process without suspending, so the prompt, the
\* write of the slot and the return are one step.
RequestConfirmation(s, command) ==
    /\ s \in sessions
    /\ pending' = Pending(command)
    /\ gateRet' = [gateRet EXCEPT ![s] =
                       GateRet("request_confirmation", command,
                               get_confirmation_prompt(command))]
    /\ UNCHANGED <<sessions, planner, frame, routerVars, cacheVars, sessVars>>

ClearPendingConfirmation(s) ==
    /\ s \in sessions
    /\ pending' = NoPending
    /\ gateRet' = [gateRet EXCEPT ![s] = GateRet("clear_pending_confirmation", <<>>, "")]
    /\ UNCHANGED <<sessions, planner, frame, routerVars, cacheVars, sessVars>>

(* ---------------------------------------------------------------------- *)
(* UICache entry points                                                    *)
(* ---------------------------------------------------------------------- *)

\* stats(), without the derived hit rate.
stats ==
    [entries |-> Cardinality(DOMAIN cache), hits |-> hits, misses |-> misses,
     ttl_seconds |-> ttl]

\* The clock advances.
Tick ==
    /\ now < MaxTime
    /\ now' = now + 1
    /\ UNCHANGED <<sessions, planner, frame, routerVars, sessVars, gateVars, cache,
                   hits, misses, cacheRet>>

\* Faulty variant: a get that finds an expired entry counts nothing.
Get_uncounted_expiry(s, app_name, target) ==
    /\ s \in sessions
    /\ hits + misses < MaxGets
    /\ LET r == UICache_get(cache, hits, misses, now, app_name, target)
       IN  /\ cache' = r.cache
           /\ hits' = r.hits
           /\ misses' = IF r.cache # cache THEN misses ELSE r.misses
           /\ cacheRet' = [cacheRet EXCEPT ![s] = CacheRet("get", app_name, target, r.ret)]
    /\ UNCHANGED <<sessions, planner, frame, routerVars, sessVars, gateVars, now>>

Get(s, app_name, target) ==
    /\ s \in sessions
    /\ hits + misses < MaxGets
    /\ LET r == UICache_get(cache, hits, misses, now, app_name, target)
       IN  /\ cache' = r.cache
           /\ hits' = r.hits
           /\ misses' = r.misses
           /\ cacheRet' = [cacheRet EXCEPT ![s] = CacheRet("get", app_name, target, r.ret)]
    /\ UNCHANGED <<sessions, planner, frame, routerVars, sessVars, gateVars, now>>

Set(s, app_name, target, x, y) ==
    /\ s \in sessions
    /\ cache' = UICache_set(cache, now, app_name, target, x, y)
    /\ cacheRet' = [cacheRet EXCEPT ![s] = CacheRet("set", app_name, target, <<>>)]
    /\ UNCHANGED <<sessions, planner, frame, routerVars, sessVars, gateVars, hits,
                   misses, now>>

Invalidate(s, app_name) ==
    /\ s \in sessions
    /\ LET r == UICache_invalidate(cache, app_name)
       IN  /\ cache' = r.cache
           /\ cacheRet' = [cacheRet EXCEPT ![s] =
                               CacheRet("invalidate", app_name, <<>>, <<r.ret>>)]
    /\ UNCHANGED <<sessions, planner, frame, routerVars, sessVars, gateVars, hits,
                   misses, now>>

(* ---------------------------------------------------------------------- *)
(* UICache calls of concurrent sessions, statement by statement           *)
(* ---------------------------------------------------------------------- *)

\* The statement at the line of session s's frame is the next to run.
At(s, call, line) == s \in sessions /\ frame[s].call = call /\ frame[s].line = line

\* The frame session s is left with when its call ends: the arguments and
\* locals are gone.
Ended(s, raised, completed) ==
    Frame(frame[s].call, 0, "", <<>>, <<>>, CacheEntry(0, 0, 0), {}, frame[s].expired,
          raised, completed)

\* Session s goes on to the given line.
Goto(s, line) == frame' = [frame EXCEPT ![s].line = line]

\* The statement of session s raises KeyError, which leaves the call.
RaiseKeyError(s) == frame' = [frame EXCEPT ![s] = Ended(s, TRUE, frame[s].completed)]

InFlight == { s \in Sessions : frame[s].line # 0 }

\* An entry is written while no call is running.
SetBetweenCalls(s, app_name, target, x, y) ==
    /\ InFlight = {}
    /\ Set(s, app_name, target, x, y)

\* get, line 45: key = (app_name.lower(), target.lower()).
GetKey(s, app_name, target) ==
    /\ At(s, frame[s].call, 0)
    /\ hits + misses + Cardinality({ o \in InFlight : frame[o].call = "get" }) < MaxGets
    /\ LET key == CacheKey(app_name, target)
       IN  frame' = [frame EXCEPT ![s] =
                        Frame("get", 47, app_name, target, key, CacheEntry(0, 0, 0), {},
                              key \in DOMAIN cache /\ now - cache[key].timestamp >= ttl,
                              FALSE, frame[s].completed)]
    /\ UNCHANGED <<sessions, planner, routerVars, sessVars, gateVars, cacheVars>>

\* get, line 47: if key in self.cache.
GetTest(s) ==
    /\ At(s, "get", 47)
    /\ Goto(s, IF frame[s].key \in DOMAIN cache THEN 48 ELSE 58)
    /\ UNCHANGED <<sessions, planner, routerVars, sessVars, gateVars, cacheVars>>

\* get, line 48: x, y, timestamp = self.cache[key].
GetRead(s) ==
    /\ At(s, "get", 48)
    /\ IF frame[s].key \in DOMAIN cache
       THEN frame' = [frame EXCEPT ![s].entry = cache[frame[s].key], ![s].line = 49]
       ELSE RaiseKeyError(s)
    /\ UNCHANGED <<sessions, planner, routerVars, sessVars, gateVars, cacheVars>>

\* get, line 49: if time.time() - timestamp < self.ttl.
GetCompare(s) ==
    /\ At(s, "get", 49)
    /\ Goto(s, IF now - frame[s].entry.timestamp < ttl THEN 50 ELSE 55)
    /\ UNCHANGED <<sessions, planner, routerVars, sessVars, gateVars, cacheVars>>

\* get, line 50: self.hits += 1.
GetCountHit(s) ==
    /\ At(s, "get", 50)
    /\ hits' = hits + 1
    /\ Goto(s, 52)
    /\ UNCHANGED <<sessions, planner, routerVars, sessVars, gateVars, cache, misses,
                   now, cacheRet>>

\* get, line 52: return (x, y).
GetReturnHit(s) ==
    /\ At(s, "get", 52)
    /\ cacheRet' = [cacheRet EXCEPT ![s] =
                        CacheRet("get", frame[s].app_name, frame[s].target,
                                 <<frame[s].entry.x, frame[s].entry.y>>)]
    /\ frame' = [frame EXCEPT ![s] = Ended(s, FALSE, frame[s].completed + 1)]
    /\ UNCHANGED <<sessions, planner, routerVars, sessVars, gateVars, cache, hits,
                   misses, now>>

\* get, line 55: del self.cache[key].
GetDelete(s) ==
    /\ At(s, "get", 55)
    /\ IF frame[s].key \in DOMAIN cache
       THEN cache' = DictDel(cache, frame[s].key) /\ Goto(s, 58)
       ELSE cache' = cache /\ RaiseKeyError(s)
    /\ UNCHANGED <<sessions, planner, routerVars, sessVars, gateVars, hits, misses,
                   now, cacheRet>>

\* get, line 58: self.misses += 1.
GetCountMiss(s) ==
    /\ At(s, "get", 58)
    /\ misses' = misses + 1
    /\ Goto(s, 60)
    /\ UNCHANGED <<sessions, planner, routerVars, sessVars, gateVars, cache, hits,
                   now, cacheRet>>

\* get, line 60: return None.
GetReturnMiss(s) ==
    /\ At(s, "get", 60)
    /\ cacheRet' = [cacheRet EXCEPT ![s] =
                        CacheRet("get", frame[s].app_name, frame[s].target, NoCoords)]
    /\ frame' = [frame EXCEPT ![s] = Ended(s, FALSE, frame[s].completed + 1)]
    /\ UNCHANGED <<sessions, planner, routerVars, sessVars, gateVars, cache, hits,
                   misses, now>>

\* invalidate(app_name) with an application name, lines 87 and 93:
\* app_lower = app_name.lower().
InvalidateLower(s, app_name) ==
    /\ At(s, frame[s].call, 0)
    /\ frame' = [frame EXCEPT ![s] =
                    Frame("invalidate", 94, app_name, <<>>, <<>>, CacheEntry(0, 0, 0), {},
                          FALSE, FALSE, frame[s].completed)]
    /\ UNCHANGED <<sessions, planner, routerVars, sessVars, gateVars, cacheVars>>

\* invalidate, line 94: keys_to_remove = [k for k in self.cache if
\* k[0] == app_lower].
InvalidateCollect(s) ==
    /\ At(s, "invalidate", 94)
    /\ frame' = [frame EXCEPT
                    ![s].keys_to_remove = { k \in DOMAIN cache : k[1] = Lower(frame[s].app_name) },
                    ![s].entry = CacheEntry(0, 0, 0),
                    ![s].line = 95]
    /\ UNCHANGED <<sessions, planner, routerVars, sessVars, gateVars, cacheVars>>

\* invalidate, lines 95-96: for key in keys_to_remove: del self.cache[key],
\* one key at a time; entry.x counts the keys the loop has passed.
InvalidateDelete(s) ==
    /\ At(s, "invalidate", 95)
    /\ frame[s].keys_to_remove # {}
    /\ \E key \in frame[s].keys_to_remove :
          IF key \in DOMAIN cache
          THEN /\ cache' = DictDel(cache, key)
               /\ frame' = [frame EXCEPT ![s].keys_to_remove = @ \ {key},
                                          ![s].entry.x = @ + 1]
          ELSE /\ cache' = cache
               /\ RaiseKeyError(s)
    /\ UNCHANGED <<sessions, planner, routerVars, sessVars, gateVars, hits, misses,
                   now, cacheRet>>

\* invalidate, line 99: return len(keys_to_remove).
InvalidateReturn(s) ==
    /\ At(s, "invalidate", 95)
    /\ frame[s].keys_to_remove = {}
    /\ cacheRet' = [cacheRet EXCEPT ![s] =
                        CacheRet("invalidate", frame[s].app_name, <<>>, <<frame[s].entry.x>>)]
    /\ frame' = [frame EXCEPT ![s] = Ended(s, FALSE, frame[s].completed)]
    /\ UNCHANGED <<sessions, planner, routerVars, sessVars, gateVars, cache, hits,
                   misses, now>>

(* ---------------------------------------------------------------------- *)
(* HybridRouter entry points                                               *)
(* ---------------------------------------------------------------------- *)

\* Faulty variant: the plan loses the coordinate the cache returned.
Route_drops_coordinates(s, utterance, app_name) ==
    /\ s \in sessions
    /\ LET r == route(cache, hits, misses, now, utterance, app_name)
       IN  /\ r.hits + r.misses <= MaxGets
           /\ plan' = [plan EXCEPT ![s] = [r.plan EXCEPT !.coordinates = <<>>]]
           /\ cache' = r.cache
           /\ hits' = r.hits
           /\ misses' = r.misses
    /\ routerRes' = [routerRes EXCEPT ![s] = NoRouterResult]
    /\ posts' = [posts EXCEPT ![s] = <<>>]
    /\ UNCHANGED <<sessions, planner, frame, sessVars, gateVars, now, cacheRet>>

Route(s, utterance, app_name) ==
    /\ s \in sessions
    /\ LET r == route(cache, hits, misses, now, utterance, app_name)
       IN  /\ r.hits + r.misses <= MaxGets
           /\ plan' = [plan EXCEPT ![s] = r.plan]
           /\ cache' = r.cache
           /\ hits' = r.hits
           /\ misses' = r.misses
    /\ routerRes' = [routerRes EXCEPT ![s] = NoRouterResult]
    /\ posts' = [posts EXCEPT ![s] = <<>>]
    /\ UNCHANGED <<sessions, planner, frame, sessVars, gateVars, now, cacheRet>>

\* Faulty variant: a successful cached click writes its coordinate back to
\* the cache.
RouterExecute_refreshes(s, app_name, response) ==
    /\ s \in sessions
    /\ plan[s] # NoPlan
    /\ LET r == execute(plan[s], app_name, response, cache, now)
       IN  /\ routerRes' = [routerRes EXCEPT ![s] = r.result]
           /\ posts' = [posts EXCEPT ![s] = r.posts]
           /\ cache' = IF plan[s].method = "cached" /\ r.result.success
                       THEN UICache_set(r.cache, now, app_name, plan[s].target,
                                        plan[s].coordinates[1], plan[s].coordinates[2])
                       ELSE r.cache
    /\ UNCHANGED <<sessions, planner, frame, sessVars, gateVars, hits, misses, now, cacheRet, plan>>

\* execute(plan, app_name) on the plan route returned.
RouterExecute(s, app_name, response) ==
    /\ s \in sessions
    /\ plan[s] # NoPlan
    /\ LET r == execute(plan[s], app_name, response, cache, now)
       IN  /\ routerRes' = [routerRes EXCEPT ![s] = r.result]
           /\ posts' = [posts EXCEPT ![s] = r.posts]
           /\ cache' = r.cache
    /\ UNCHANGED <<sessions, planner, frame, sessVars, gateVars, hits, misses, now, cacheRet, plan>>

(* ---------------------------------------------------------------------- *)
(* Specification                                                           *)
(* ---------------------------------------------------------------------- *)

\* The kernel's entry points and the pending-confirmation slot.
Next ==
    \/ \E s \in Sessions, c \in Commands : ProcessCommand(s, c)
    \/ \E s \in Sessions : Perceive(s)
    \/ \E s \in Sessions : Plan(s)
    \/ \E s \in Sessions : Execute(s)
    \/ \E s \in Sessions : Verify(s)
    \/ \E s \in Sessions, c \in Commands, b \in BOOLEAN : ProcessWithConfirmation(s, c, b)
    \/ \E s \in Sessions : ConfirmPerceive(s)
    \/ \E s \in Sessions : ConfirmPlan(s)
    \/ \E s \in Sessions : ConfirmExecute(s)
    \/ \E s \in Sessions : Return(s)
    \/ \E s \in Sessions, c \in Commands : RequestConfirmation(s, c)
    \/ \E s \in Sessions : ClearPendingConfirmation(s)

Spec == Init /\ [][Next]_vars

\* The SafetyGuard on its own: its queries and the pending-confirmation slot.
NextGate ==
    \/ \E s \in Sessions, c \in Commands : RequiresConfirmation(s, c)
    \/ \E s \in Sessions, r \in Replies : ParseConfirmationResponse(s, r)
    \/ \E s \in Sessions, c \in Commands : RequestConfirmation(s, c)
    \/ \E s \in Sessions : ClearPendingConfirmation(s)

SpecGate == Init /\ [][NextGate]_vars

\* The SafetyGuard singleton called from two sessions.
InitShared ==
    /\ sessions = Sessions
    /\ planner = <<>>
    /\ InitCommon

SpecGateShared == InitShared /\ [][NextGate]_vars

\* Commands given while another command is in flight.
ConcurrentCommands ==
    { <<"Delete", "this", "file">>,
      <<"scroll", "down">> }

\* Two process_command calls on the shared kernel, one task per session,
\* interleaved at their suspension points.
NextConcurrent ==
    \/ \E s \in Sessions, c \in ConcurrentCommands : ProcessCommand(s, c)
    \/ \E s \in Sessions : Perceive(s)
    \/ \E s \in Sessions : Plan(s)
    \/ \E s \in Sessions : Execute(s)
    \/ \E s \in Sessions : Verify(s)
    \/ \E s \in Sessions : Return(s)

SpecConcurrent == InitShared /\ [][NextConcurrent]_vars

\* Commands of each kind of planned action.
ReturningCommands ==
    { <<"Delete", "this", "file">>,
      <<"click", "4">>,
      <<"click", "the", "save", "button">>,
      <<"scroll", "down">>,
      <<"hello", "there">> }

NextReturning ==
    \/ \E s \in Sessions, c \in ReturningCommands : ProcessCommand(s, c)
    \/ \E s \in Sessions : Perceive(s)
    \/ \E s \in Sessions : Plan(s)
    \/ \E s \in Sessions : Execute(s)
    \/ \E s \in Sessions : Verify(s)
    \/ \E s \in Sessions : Return(s)

\* One session of the kernel when every collaborator call returns or
\* raises: a call of process_command that has not returned takes its next
\* step.
SpecReturning ==
    /\ Init
    /\ [][NextReturning]_vars
    /\ \A s \in Sessions : WF_vars(Perceive(s) \/ Plan(s) \/ Execute(s) \/ Verify(s))

\* The UICache on its own, under the clock.
NextCache ==
    \/ Tick
    \/ \E s \in Sessions, a \in Apps, t \in CacheTargets : Get(s, a, t)
    \/ \E s \in Sessions, a \in Apps, t \in CacheTargets, p \in Points : Set(s, a, t, p[1], p[2])
    \/ \E s \in Sessions, a \in Apps \cup {NoApp} : Invalidate(s, a)

SpecCache == Init /\ [][NextCache]_vars

\* The HybridRouter over its cache, under the clock.
NextRouter ==
    \/ Tick
    \/ \E s \in Sessions, u \in RouterUtterances, a \in Apps : Route(s, u, a)
    \/ \E s \in Sessions, a \in Apps, r \in Responses : RouterExecute(s, a, r)

SpecRouter == Init /\ [][NextRouter]_vars

\* The HybridRouter over a cache that a client may invalidate.
NextRouterInvalidate ==
    \/ Tick
    \/ \E s \in Sessions, u \in RouterUtterances, a \in Apps : Route(s, u, a)
    \/ \E s \in Sessions, a \in Apps, r \in Responses : RouterExecute(s, a, r)
    \/ \E s \in Sessions, a \in Apps \cup {NoApp} : Invalidate(s, a)

SpecRouterInvalidate == Init /\ [][NextRouterInvalidate]_vars

\* Routing over a cache that another client writes, targets with a
\* complexity indicator included.
NextSeeded ==
    \/ Tick
    \/ \E s \in Sessions, u \in RouterUtterances, a \in Apps : Route(s, u, a)
    \/ \E s \in Sessions, t \in SeedTargets, p \in Points : Set(s, "Calculator", t, p[1], p[2])

SpecSeeded == Init /\ [][NextSeeded]_vars

\* The HybridRouter routing and executing over a cache that another
\* client writes.
NextRouterSeeded ==
    \/ Tick
    \/ \E s \in Sessions, u \in RouterUtterances, a \in Apps : Route(s, u, a)
    \/ \E s \in Sessions, a \in Apps, r \in Responses : RouterExecute(s, a, r)
    \/ \E s \in Sessions, p \in Points :
          Set(s, "Calculator", <<"s","u","b","m","i","t">>, p[1], p[2])

SpecRouterSeeded == Init /\ [][NextRouterSeeded]_vars

\* The shared UICache called from two sessions whose get and invalidate
\* calls interleave between statements.
NextInterleaved ==
    \/ Tick
    \/ \E s \in Sessions, p \in Points :
          SetBetweenCalls(s, "Calculator", <<"s","u","b","m","i","t">>, p[1], p[2])
    \/ \E s \in Sessions, a \in {"Calculator", "calculator"} :
          GetKey(s, a, <<"s","u","b","m","i","t">>)
    \/ \E s \in Sessions : GetTest(s)
    \/ \E s \in Sessions : GetRead(s)
    \/ \E s \in Sessions : GetCompare(s)
    \/ \E s \in Sessions : GetCountHit(s)
    \/ \E s \in Sessions : GetReturnHit(s)
    \/ \E s \in Sessions : GetDelete(s)
    \/ \E s \in Sessions : GetCountMiss(s)
    \/ \E s \in Sessions : GetReturnMiss(s)
    \/ \E s \in Sessions : InvalidateLower(s, "Calculator")
    \/ \E s \in Sessions : InvalidateCollect(s)
    \/ \E s \in Sessions : InvalidateDelete(s)
    \/ \E s \in Sessions : InvalidateReturn(s)

SpecInterleaved == InitShared /\ [][NextInterleaved]_vars

\* The kernel driven by a planner that answers with coordinate clicks.
InitPerturb ==
    /\ sessions = {1}
    /\ planner \in { <<x, y>> : x \in 0..MaxCoord, y \in 0..MaxCoord }
    /\ InitCommon

SpecPerturb == InitPerturb /\ [][Next]_vars

(* ---------------------------------------------------------------------- *)
(* Properties                                                              *)
(* ---------------------------------------------------------------------- *)

\* The session has returned from the named entry point.
Returned(s, entry) == pc[s] = "done" /\ op[s] = entry

\* Every controller call the session made so far failed (returned False or raised).
InjectionAlwaysFailed(s) == \A i \in 1..Len(injLog[s]) : ~injLog[s][i].ok

\* Every controller call the session made so far returned True.
InjectionAlwaysSucceeded(s) == \A i \in 1..Len(injLog[s]) : injLog[s][i].ok

\* C1 as stated: for every sensitive command and every behaviour of the
\* collaborators, process_command returns needs_confirmation = true and has
\* made no input-injection call.
C1_AsStated ==
    \A s \in Sessions :
        (Returned(s, "process_command") /\ requires_confirmation(cmd[s]))
            => (result[s].needs_confirmation /\ injLog[s] = <<>>)

\* C1 amended: for a sensitive command process_command never makes an
\* input-injection call; it returns needs_confirmation = true at the first
\* attempt whose perceive returns, and only when perceive raised in every one
\* of the MAX_RETRIES attempts does it return the error result instead
\* (success = false, needs_confirmation = false).
C1_SensitiveNeverInjects ==
    \A s \in Sessions :
        (op[s] = "process_command" /\ requires_confirmation(cmd[s]))
            => /\ injLog[s] = <<>>
               /\ pc[s] = "done" =>
                    IF plans[s] = 0
                    THEN /\ perceives[s] = MAX_RETRIES
                         /\ result[s] = ErrorResult("sensing", MAX_RETRIES)
                    ELSE /\ result[s].needs_confirmation
                         /\ ~result[s].success
                         /\ result[s].attempts = perceives[s]

\* C1 witness: a sensitive command was gated at its second attempt, after
\* the first perceive raised.
C1_Witness ==
    \E s \in Sessions :
        /\ Returned(s, "process_command")
        /\ requires_confirmation(cmd[s])
        /\ result[s].needs_confirmation
        /\ result[s].attempts = 2

\* C2 as stated: process_with_confirmation(command, confirmed = true) for a
\* sensitive command makes exactly one input-injection call, perceives and
\* plans once (no retry loop) and returns a result with attempts = 1.
C2_AsStated ==
    \A s \in Sessions :
        (/\ Returned(s, "process_with_confirmation")
         /\ confirmedArg[s]
         /\ requires_confirmation(cmd[s])
         /\ ~result[s].raised)
            => /\ Len(injLog[s]) = 1
               /\ perceives[s] = 1
               /\ plans[s] = 1
               /\ result[s].attempts = 1

\* C3: process_with_confirmation(command, confirmed = false) returns at once
\* with success = false and attempts = 0, having made no perceive, plan or
\* input-injection call.
C3_CancelDoesNothing ==
    \A s \in Sessions :
        (op[s] = "process_with_confirmation" /\ ~confirmedArg[s])
            => /\ pc[s] = "done"
               /\ ~result[s].success
               /\ result[s].attempts = 0
               /\ ~result[s].raised
               /\ perceives[s] = 0
               /\ plans[s] = 0
               /\ injLog[s] = <<>>

\* C3 witness: a cancelled confirmation of a sensitive command has returned.
C3_Witness ==
    \E s \in Sessions :
        /\ Returned(s, "process_with_confirmation")
        /\ ~confirmedArg[s]
        /\ requires_confirmation(cmd[s])

\* The command contains a word or phrase of a sensitive pattern.
HasSensitiveKeyword(command) ==
    \E i \in 1..Len(SENSITIVE_PATTERNS) : PatternSearch(SENSITIVE_PATTERNS[i], command)

\* C4 as stated: requires_confirmation returns false for a command that
\* begins with "click" and also contains a sensitive keyword, such as
\* "click the submit button".
C4_AsStated ==
    \A s \in Sessions :
        (/\ gateRet[s].call = "requires_confirmation"
         /\ Lower(gateRet[s].arg[1]) = "click"
         /\ HasSensitiveKeyword(gateRet[s].arg))
            => gateRet[s].ret = "false"

\* C5 as stated: "click submit" on a screen whose element 3 is labelled
\* Submit, with a controller that succeeds, makes process_command call
\* click_element on element 3 and return success = true with the message
\* "Clicked element 3".
C5_AsStated ==
    \A s \in Sessions :
        (/\ Returned(s, "process_command")
         /\ cmd[s] = <<"click", "submit">>
         /\ context[s] = SubmitScreen
         /\ InjectionAlwaysSucceeded(s))
            => /\ result[s].success
               /\ result[s].message = Msg("Clicked element", 3, <<>>)
               /\ Len(injLog[s]) = 1
               /\ injLog[s][1].call = InjCall("click_element", 3, <<>>, <<>>)

\* C6: when every controller call fails, process_command for a command the
\* gate lets pass returns success = false with attempts = MAX_RETRIES, and
\* it never makes more than MAX_RETRIES controller calls.
C6_RetryBound ==
    \A s \in Sessions :
        (op[s] = "process_command" /\ ~requires_confirmation(cmd[s]))
            => /\ Len(injLog[s]) <= MAX_RETRIES
               /\ (pc[s] = "done" /\ InjectionAlwaysFailed(s))
                    => /\ ~result[s].success
                       /\ result[s].attempts = MAX_RETRIES

\* C6 witness: a command was tried MAX_RETRIES times, every controller call
\* failed, and the failure has been returned.
C6_Witness ==
    \E s \in Sessions :
        /\ Returned(s, "process_command")
        /\ ~requires_confirmation(cmd[s])
        /\ Len(injLog[s]) = MAX_RETRIES
        /\ InjectionAlwaysFailed(s)
        /\ result[s].attempts = MAX_RETRIES

C8_AsStated ==
    \A s \in Sessions :
        (Returned(s, "process_command") /\ result[s].needs_confirmation)
            => /\ has_pending_confirmation
               /\ get_pending_command = Pending(cmd[s])

C10_AsStated ==
    [][\A s \in Sessions : \A c \in Commands :
          (ProcessWithConfirmation(s, c, FALSE) /\ has_pending_confirmation)
              => /\ ~result'[s].success
                 /\ result'[s].attempts = 0
                 /\ ~has_pending_confirmation']_vars

\* C11: the gate holds at most one pending command.  A request made while
\* another command is pending replaces it: afterwards the slot holds the
\* command of the later request, get_pending_command() returns it, and the
\* earlier command is held nowhere in the gate.
C11_SingleSlot ==
    [][\A s \in Sessions : \A c \in Commands :
          RequestConfirmation(s, c)
              => /\ has_pending_confirmation'
                 /\ get_pending_command' = Pending(c)
                 /\ (has_pending_confirmation /\ pending.command # c)
                        => get_pending_command' # get_pending_command]_vars

\* C11 witness: both sessions hold the prompt of a request they made, for
\* two different commands, and the slot holds only the second session's
\* command.
C11_Witness ==
    /\ gateRet[1].call = "request_confirmation"
    /\ gateRet[2].call = "request_confirmation"
    /\ gateRet[1].arg = <<"Delete", "this", "file">>
    /\ gateRet[2].arg = <<"click", "submit">>
    /\ pending = Pending(gateRet[2].arg)

\* The cache holds an entry for the key that is younger than the TTL.
LiveEntry(key) == key \in DOMAIN cache /\ now - cache[key].timestamp < ttl

\* The cache holds an entry for the key whose age is at least the TTL.
ExpiredEntry(key) == key \in DOMAIN cache /\ now - cache[key].timestamp >= ttl

\* C12: set overwrites by key: after set(app, target, x, y) the key holds
\* exactly (x, y) stamped with the time of the call, the key is one entry
\* of the cache and every other entry is as it was; and a get made less
\* than the TTL after the latest set of its key returns the (x, y) of that
\* set and leaves the entry in place.
C12_LastWriterWins ==
    [][\A s \in Sessions : \A a \in Apps : \A t \in CacheTargets :
          LET key == CacheKey(a, t)
          IN  /\ \A p \in Points :
                    Set(s, a, t, p[1], p[2])
                        => /\ cache'[key] = CacheEntry(p[1], p[2], now)
                           /\ DOMAIN cache' = DOMAIN cache \cup {key}
                           /\ \A k \in DOMAIN cache \ {key} : cache'[k] = cache[k]
                           /\ stats'.entries =
                                  stats.entries + (IF key \in DOMAIN cache THEN 0 ELSE 1)
              /\ (Get(s, a, t) /\ LiveEntry(key))
                    => /\ cacheRet'[s].ret = <<cache[key].x, cache[key].y>>
                       /\ cache' = cache]_vars

\* C12 witness: a get has just returned the coordinates of an entry that
\* was written after the clock had advanced, the only entry of the cache,
\* and an earlier get had been a hit too.
C12_Witness ==
    \E s \in Sessions :
        LET key == CacheKey(cacheRet[s].app_name, cacheRet[s].target)
        IN  /\ cacheRet[s].call = "get"
            /\ LiveEntry(key)
            /\ cache[key].timestamp > 0
            /\ cacheRet[s].ret = <<cache[key].x, cache[key].y>>
            /\ stats.entries = 1
            /\ hits = 2

\* C13: a get for a key whose entry has reached the TTL returns absent,
\* adds one miss and no hit, and deletes the entry, so stats().entries
\* drops by one; and an expired entry leaves the cache only through such a
\* get or an invalidate, being counted by stats().entries until then.
C13_ExpiredNeverServed ==
    [][\A key \in DOMAIN cache :
          ExpiredEntry(key)
              => /\ \A s \in Sessions : \A a \in Apps : \A t \in CacheTargets :
                        (Get(s, a, t) /\ CacheKey(a, t) = key)
                            => /\ cacheRet'[s].ret = NoCoords
                               /\ misses' = misses + 1
                               /\ hits' = hits
                               /\ key \notin DOMAIN cache'
                               /\ stats'.entries = stats.entries - 1
                 /\ key \notin DOMAIN cache'
                        => \/ \E s \in Sessions, a \in Apps, t \in CacheTargets :
                                 Get(s, a, t) /\ CacheKey(a, t) = key
                           \/ \E s \in Sessions, a \in Apps \cup {NoApp} : Invalidate(s, a)]_vars

\* C13 witness: after an earlier hit, a get at a time when any entry
\* written at time 0 has expired returned absent and left the cache empty.
C13_Witness ==
    \E s \in Sessions :
        /\ cacheRet[s].call = "get"
        /\ cacheRet[s].ret = NoCoords
        /\ hits = 1
        /\ misses = 1
        /\ now = ttl
        /\ stats.entries = 0

\* C14: a get made after a set, less than the TTL later, with an application
\* name and a target that differ from the set's only in letter case,
\* returns the coordinates that were set.
C14_CaseInsensitive ==
    [][\A s \in Sessions : \A a \in Apps : \A t \in CacheTargets :
          LET set_key == CacheKey(cacheRet[s].app_name, cacheRet[s].target)
          IN  (/\ cacheRet[s].call = "set"
               /\ Lower(a) = Lower(cacheRet[s].app_name)
               /\ LowerSeq(t) = LowerSeq(cacheRet[s].target)
               /\ LiveEntry(set_key)
               /\ Get(s, a, t))
                  => /\ cacheRet'[s].ret = <<cache[set_key].x, cache[set_key].y>>
                     /\ hits' = hits + 1]_vars

\* C14 witness: "Calculator" / "Submit" was written and is read back, with
\* its coordinates, as "calculator" / "submit".
C14_Witness ==
    \E s \in Sessions :
        /\ cacheRet[s] = CacheRet("get", "calculator", <<"s","u","b","m","i","t">>, <<3, 4>>)
        /\ DOMAIN cache = {CacheKey("Calculator", <<"S","u","b","m","i","t">>)}
        /\ hits = 1
        /\ misses = 0

\* C15: route returns the full-visual plan, carrying the utterance, for
\* every click utterance whose target contains a complexity indicator,
\* whatever the cache holds, and leaves the cache, the hit counter and the
\* miss counter as they were.
C15_ComplexTargetSkipsCache ==
    [][\A s \in Sessions : \A u \in RouterUtterances : \A a \in Apps :
          (/\ Route(s, u, a)
           /\ Extracted[u].target # <<>>
           /\ _needs_vlm(Extracted[u].target))
              => /\ plan'[s] = ExecutionPlan("vlm", <<>>, <<>>, u)
                 /\ cache' = cache
                 /\ hits' = hits
                 /\ misses' = misses]_vars

\* C15 witness: "click the third icon" has been routed to the full-visual
\* tier while the cache holds a live entry for ("calculator", "third icon"),
\* and no lookup has been counted.
C15_Witness ==
    \E s \in Sessions :
        /\ plan[s] = ExecutionPlan("vlm", <<>>, <<>>, <<"c","l","i","c","k"," ","t","h","e"," ","t","h","i","r","d"," ","i","c","o","n">>)
        /\ LiveEntry(CacheKey("Calculator", <<"t","h","i","r","d"," ","i","c","o","n">>))
        /\ hits = 0
        /\ misses = 0

\* C16: when the cache holds a live entry for (app, target), route for a
\* click on that target returns the cached plan with the stored coordinate;
\* and executing a cached plan posts one click at the plan's coordinate and
\* nothing to the text-search service.
C16_CachedTierSkipsTextSearch ==
    [][\A s \in Sessions : \A a \in Apps :
          /\ \A u \in RouterUtterances :
                LET target == Extracted[u].target
                    key    == CacheKey(a, target)
                IN  (target # <<>> /\ LiveEntry(key) /\ Route(s, u, a))
                        => plan'[s] = ExecutionPlan("cached", target,
                                                    <<cache[key].x, cache[key].y>>, <<>>)
          /\ \A r \in Responses :
                (plan[s].method = "cached" /\ RouterExecute(s, a, r))
                    => /\ posts'[s] = << Post("/api/click", plan[s].coordinates, <<>>) >>
                       /\ routerRes'[s].method = "cached"]_vars

\* C16 witness: with a live entry for ("calculator", "submit"), a click on
\* submit was routed to the cached tier with the entry's coordinate and
\* executed with success by one post to the click service.
C16_Witness ==
    \E s \in Sessions :
        LET key == CacheKey("Calculator", <<"s","u","b","m","i","t">>)
        IN  /\ LiveEntry(key)
            /\ plan[s] = ExecutionPlan("cached", <<"s","u","b","m","i","t">>, <<cache[key].x, cache[key].y>>, <<>>)
            /\ routerRes[s].success
            /\ routerRes[s].method = "cached"
            /\ posts[s] = << Post("/api/click", plan[s].coordinates, <<>>) >>

\* C17 as stated: whenever the execution of a text-search plan reports
\* success, the cache holds under (app_name, target) an entry written by
\* that execution.
C17_AsStated ==
    [][\A s \in Sessions : \A a \in Apps : \A r \in Responses :
          (/\ plan[s].method = "ocr"
           /\ RouterExecute(s, a, r)
           /\ routerRes'[s].success)
              => LET key == CacheKey(a, plan[s].target)
                 IN  /\ key \in DOMAIN cache'
                     /\ cache'[key].timestamp = now]_vars

\* C17 amended: when the execution of a text-search plan reports success
\* and the service's answer carries both coordinates, the cache holds
\* under (app_name, target) exactly that coordinate, stamped with the time of
\* the execution, in the state in which success is reported; when the
\* answer carries no coordinates, success is reported and the cache is left
\* as it was.
C17_CachedWhenCoordinatesReturned ==
    [][\A s \in Sessions : \A a \in Apps : \A r \in Responses :
          (/\ plan[s].method = "ocr"
           /\ RouterExecute(s, a, r)
           /\ routerRes'[s].success)
              => LET key == CacheKey(a, plan[s].target)
                 IN  IF r.xy # <<>>
                     THEN /\ key \in DOMAIN cache'
                          /\ cache'[key] = CacheEntry(r.xy[1], r.xy[2], now)
                     ELSE cache' = cache]_vars

\* C17 witness: a text-search execution for submit has reported success
\* and the cache holds the entry for ("safari", "submit") written by it.
C17_Witness ==
    \E s \in Sessions :
        /\ plan[s] = ExecutionPlan("ocr", <<"s","u","b","m","i","t">>, <<>>, <<>>)
        /\ routerRes[s].success
        /\ routerRes[s].method = "ocr"
        /\ posts[s] = << Post("/api/click-text", <<>>, <<"s","u","b","m","i","t">>) >>
        /\ DOMAIN cache = {CacheKey("Safari", <<"s","u","b","m","i","t">>)}
        /\ cache[CacheKey("Safari", <<"s","u","b","m","i","t">>)].timestamp = now

\* C18: execute never lets an exception out: whatever the services do, it
\* returns a dict, and the dict it returns for an exception raised in a
\* tier has success = false and names the tier of the plan as its method.
C18_ExecuteNeverRaises ==
    \A s \in Sessions :
        /\ ~routerRes[s].raised
        /\ routerRes[s].message = "str(e)"
              => /\ ~routerRes[s].success
                 /\ routerRes[s].method = plan[s].method
                 /\ plan[s].method \in {"cached", "ocr"}

\* C18 witness: the text-search service raised while a text-search plan
\* was executed, and execute returned the failure dict of the ocr tier.
C18_Witness ==
    \E s \in Sessions :
        /\ plan[s].method = "ocr"
        /\ posts[s] # <<>>
        /\ routerRes[s] = RouterResult(FALSE, "str(e)", "ocr")

\* C19 as stated: every failure process_command returns once MAX_RETRIES
\* attempts are used up carries the message that asks whether the target is
\* visible on screen.
C19_AsStated ==
    \A s \in Sessions :
        (/\ Returned(s, "process_command")
         /\ ~result[s].success
         /\ ~result[s].needs_confirmation
         /\ result[s].attempts = MAX_RETRIES)
            => result[s].message = ExhaustedResult.message

\* C20 as stated: when the planned action is unknown, process_command does
\* not go back for another attempt: the step that handles the unknown action
\* returns the result, after the one perceive and the one plan call of that
\* attempt.
C20_AsStated ==
    [][\A s \in Sessions :
          (/\ op[s] = "process_command"
           /\ action[s].action_type = "unknown"
           /\ Execute(s))
              => /\ pc'[s] = "done"
                 /\ result'[s].attempts = attempt[s]
                 /\ perceives'[s] = perceives[s]
                 /\ plans'[s] = plans[s]]_vars

\* The step is a perceive or a verify of session s in which the sensing
\* collaborator raised.
SensingRaised(s) ==
    \/ Perceive(s) /\ pc'[s] # "plan"
    \/ Verify(s) /\ ~(pc'[s] = "done" /\ result'[s].success)

\* C21: process_command never raises.  An exception of a collaborator in
\* attempt k uses up that attempt: while k < MAX_RETRIES the next attempt
\* starts and nothing is returned, and at k = MAX_RETRIES the error result
\* carrying the exception message is returned with attempts = MAX_RETRIES;
\* no result of an earlier attempt carries an exception message.
C21_ExceptionConsumesAttempt ==
    [][\A s \in Sessions :
          op[s] = "process_command"
              => /\ ~result'[s].raised
                 /\ result'[s].message.text = "Error:"
                        => result'[s].attempts = MAX_RETRIES
                 /\ SensingRaised(s)
                        => IF attempt[s] < MAX_RETRIES
                           THEN /\ pc'[s] = "perceive"
                                /\ attempt'[s] = attempt[s] + 1
                                /\ result'[s] = NoResult
                           ELSE /\ pc'[s] = "done"
                                /\ result'[s] = ErrorResult("sensing", MAX_RETRIES)]_vars

\* C21 witness: the sensing collaborator raised in the first attempt and
\* in the last one, and process_command returned the error result after
\* MAX_RETRIES attempts, one of which had injected a successful call.
C21_Witness ==
    \E s \in Sessions :
        /\ Returned(s, "process_command")
        /\ result[s] = ErrorResult("sensing", MAX_RETRIES)
        /\ Len(injLog[s]) = 1
        /\ injLog[s][1].ok
        /\ injLog[s][1].attempt = 2

\* The command contains a keyword of one of the safe patterns.
HasSafeKeyword(command) ==
    \E i \in 1..Len(SAFE_PATTERNS) : PatternSearch(SAFE_PATTERNS[i], command)

C23_TierSelection ==
    [][\A s \in Sessions : \A u \in RouterUtterances : \A a \in Apps :
          Route(s, u, a)
              => LET target == Extracted[u].target
                     key    == CacheKey(a, target)
                     simple == target # <<>> /\ ~_needs_vlm(target)
                 IN  /\ plan'[s].method = "cached" <=> simple /\ LiveEntry(key)
                     /\ plan'[s].method = "cached"
                            => plan'[s] = ExecutionPlan("cached", target,
                                                        <<cache[key].x, cache[key].y>>, <<>>)
                     /\ plan'[s].method = "ocr" <=> simple /\ ~LiveEntry(key)
                     /\ plan'[s].method = "ocr"
                            => plan'[s] = ExecutionPlan("ocr", target, <<>>, <<>>)
                     /\ target = <<>>
                            => plan'[s] = ExecutionPlan("vlm", <<>>, <<>>, u)]_vars

\* C23 witness: a click on "submit" was routed to the cached tier with the
\* coordinate the cache holds for it, after an earlier routing had counted
\* a miss.
C23_Witness ==
    \E s \in Sessions :
        LET key == CacheKey("Calculator", <<"s","u","b","m","i","t">>)
        IN  /\ LiveEntry(key)
            /\ plan[s] = ExecutionPlan("cached", <<"s","u","b","m","i","t">>,
                                       <<cache[key].x, cache[key].y>>, <<>>)
            /\ hits = 1
            /\ misses = 1

\* C24: executing a full-visual plan returns success = false with the
\* message that the tier is not implemented and method "vlm", whatever the
\* services would answer; it posts nothing to the click or the text-search
\* service and leaves the cache and its counters as they were.
C24_VlmAlwaysFails ==
    [][\A s \in Sessions : \A a \in Apps : \A r \in Responses :
          (plan[s].method = "vlm" /\ RouterExecute(s, a, r))
              => /\ routerRes'[s] = RouterResult(FALSE, "VLM execution not implemented", "vlm")
                 /\ posts'[s] = <<>>
                 /\ cache' = cache
                 /\ hits' = hits
                 /\ misses' = misses]_vars

\* C24 witness: a full-visual plan was executed while the cache held an
\* entry, and the failure of the vlm tier was returned without a post.
C24_Witness ==
    \E s \in Sessions :
        /\ plan[s].method = "vlm"
        /\ routerRes[s] = RouterResult(FALSE, "VLM execution not implemented", "vlm")
        /\ posts[s] = <<>>
        /\ cache # EmptyCache

\* The reply, in lower case, contains one of the words.
ReplyContains(response, words) ==
    \E word \in words : Contains(LowerSeq(response), word)

\* C25: parse_confirmation_response answers confirmed for every reply in
\* which a confirm word appears, also when a cancel word appears in it too;
\* cancelled for a reply with a cancel word and no confirm word; unclear for
\* every other reply; the answer is the same every time the reply is
\* parsed, and the call leaves the pending slot as it was.
C25_ConfirmPrecedence ==
    [][\A s \in Sessions : \A r \in Replies :
          ParseConfirmationResponse(s, r)
              => /\ gateRet'[s].ret =
                        IF ReplyContains(r, ConfirmWords) THEN "confirmed"
                        ELSE IF ReplyContains(r, CancelWords) THEN "cancelled"
                        ELSE "unclear"
                 /\ \A s2 \in Sessions :
                        (gateRet[s2].call = "parse_confirmation_response" /\ gateRet[s2].arg = r)
                            => gateRet'[s].ret = gateRet[s2].ret
                 /\ pending' = pending]_vars

\* C25 witness: the reply "yes stop", which contains a confirm word and a
\* cancel word, was parsed as confirmed while a command was pending.
C25_Witness ==
    \E s \in Sessions :
        /\ gateRet[s] = GateRet("parse_confirmation_response",
                                <<"y", "e", "s", " ", "s", "t", "o", "p">>, "confirmed")
        /\ ReplyContains(gateRet[s].arg, CancelWords)
        /\ has_pending_confirmation

\* C26: invalidate(app) removes the entries of the application, compared
\* without regard to case, and no other entry, keeps the entries of the
\* other applications as they were and returns the number of entries it
\* removed; invalidate(None) removes every entry and returns the number of
\* entries the cache held; neither changes the hit or the miss counter.
C26_InvalidateExactly ==
    [][\A s \in Sessions :
          /\ \A a \in Apps :
                Invalidate(s, a)
                    => LET removed == { k \in DOMAIN cache : k[1] = Lower(a) }
                       IN  /\ DOMAIN cache' = DOMAIN cache \ removed
                           /\ \A k \in DOMAIN cache' : cache'[k] = cache[k]
                           /\ cacheRet'[s].ret = << Cardinality(removed) >>
                           /\ hits' = hits
                           /\ misses' = misses
          /\ Invalidate(s, NoApp)
                => /\ cache' = EmptyCache
                   /\ cacheRet'[s].ret = << Cardinality(DOMAIN cache) >>
                   /\ hits' = hits
                   /\ misses' = misses]_vars

\* C26 witness: invalidate("Calculator") removed the entry stored for
\* "calculator" and left the entry of "safari" in the cache, after a
\* lookup had been counted.
C26_Witness ==
    \E s \in Sessions :
        /\ cacheRet[s] = CacheRet("invalidate", "Calculator", <<>>, <<1>>)
        /\ \E k \in DOMAIN cache : k[1] = "safari"
        /\ \A k \in DOMAIN cache : k[1] # "calculator"
        /\ hits + misses > 0

\* C27: every get adds one to exactly one of the two counters, to hits if
\* it returns a coordinate and to misses if it returns None, and changes
\* neither otherwise; set and invalidate leave both counters as they were,
\* stats reports them unchanged, and no step decreases either.  Both start
\* at zero, so hits + misses is the number of get calls made.
C27_GetCountsOnce ==
    [][/\ \A s \in Sessions : \A a \in Apps : \A t \in CacheTargets :
             Get(s, a, t)
                 => IF cacheRet'[s].ret # NoCoords
                    THEN hits' = hits + 1 /\ misses' = misses
                    ELSE hits' = hits /\ misses' = misses + 1
       /\ \A s \in Sessions : \A a \in Apps : \A t \in CacheTargets : \A p \in Points :
             Set(s, a, t, p[1], p[2]) => hits' = hits /\ misses' = misses
       /\ \A s \in Sessions : \A a \in Apps \cup {NoApp} :
             Invalidate(s, a) => hits' = hits /\ misses' = misses
       /\ hits' >= hits
       /\ misses' >= misses
       /\ stats.hits = hits /\ stats.misses = misses
       /\ stats'.hits = hits' /\ stats'.misses = misses']_vars

\* C27 witness: two gets were made, one answered from the cache and one
\* not, an invalidate that removed an entry came after them, and stats
\* reports one hit and one miss.
C27_Witness ==
    \E s \in Sessions :
        /\ hits = 1
        /\ misses = 1
        /\ cacheRet[s] = CacheRet("invalidate", NoApp, <<>>, <<1>>)
        /\ stats = [entries |-> 0, hits |-> 1, misses |-> 1, ttl_seconds |-> ttl]

\* The action planned for session s is a click by element number whose
\* number is not in the element map perceived in this attempt.
ClickOnAbsentElement(s) ==
    /\ op[s] = "process_command"
    /\ action[s].action_type = "click"
    /\ action[s].target_element # NoElement
    /\ action[s].coordinates = <<>>
    /\ action[s].target_element \notin 1..Len(context[s].element_map)

\* C28: for a planned click whose element number is not in the element
\* map of the current attempt, an empty map included, _execute returns
\* False: no controller call is made and nothing is raised, and
\* process_command treats it as any failed execution, going on to the
\* next attempt while attempts remain and returning the execute-failure
\* result at the last one.
C28_AbsentElementFails ==
    [][\A s \in Sessions :
          (ClickOnAbsentElement(s) /\ Execute(s))
              => /\ _execute(action[s], context[s]) = NoCall
                 /\ injLog' = injLog
                 /\ ~result'[s].raised
                 /\ IF attempt[s] < MAX_RETRIES
                    THEN /\ pc'[s] = "perceive"
                         /\ attempt'[s] = attempt[s] + 1
                         /\ result'[s] = NoResult
                    ELSE /\ pc'[s] = "done"
                         /\ result'[s] = ExecuteFailedResult(action[s], MAX_RETRIES)]_vars

\* C28 witness: "click 4" was given on screens of at most three elements;
\* process_command returned the execute failure after MAX_RETRIES attempts
\* without a single controller call, the last attempt on the Submit screen.
C28_Witness ==
    \E s \in Sessions :
        /\ Returned(s, "process_command")
        /\ cmd[s] = <<"click", "4">>
        /\ context[s] = SubmitScreen
        /\ result[s] = ExecuteFailedResult(action[s], MAX_RETRIES)
        /\ action[s].target_element = 4
        /\ injLog[s] = <<>>

\* C29: when the action planned in attempt k is confirm-required,
\* process_command returns in that step: the result has needs_confirmation
\* set, success unset, attempts = k and a confirmation prompt quoting the
\* command as it was given; the attempt counter stays at k and nothing is
\* sent to the controller.
C29_ConfirmationEndsCommand ==
    [][\A s \in Sessions :
          (/\ op[s] = "process_command"
           /\ Plan(s)
           /\ action'[s].action_type = "confirm_required")
              => /\ pc'[s] = "done"
                 /\ result'[s].needs_confirmation
                 /\ ~result'[s].success
                 /\ ~result'[s].raised
                 /\ result'[s].attempts = attempt[s]
                 /\ result'[s].confirmation_prompt.text
                        = "I'm about to ... Say 'Confirm' or 'Cancel'."
                 /\ result'[s].confirmation_prompt.words = cmd[s]
                 /\ attempt'[s] = attempt[s]
                 /\ perceives'[s] = perceives[s]
                 /\ injLog'[s] = injLog[s]]_vars

\* C29 witness: "Delete this file" was planned as confirm-required in the
\* second attempt, the first having ended in an exception, and
\* process_command returned the confirmation request with attempts = 2.
C29_Witness ==
    \E s \in Sessions :
        /\ Returned(s, "process_command")
        /\ cmd[s] = <<"Delete", "this", "file">>
        /\ result[s].needs_confirmation
        /\ result[s].attempts = 2
        /\ result[s].confirmation_prompt.words = <<"Delete", "this", "file">>
        /\ perceives[s] = 2
        /\ plans[s] = 1

\* C30: after a successful execute of a click, type, scroll or shortcut
\* action, _verify returns True for every screen the re-perceive may
\* report, so the verify step either returns success = true with
\* verification_passed = true and attempts = the attempt whose controller
\* call succeeded, or is a step in which the re-perceive raised.
C30_OptimisticVerify ==
    [][\A s \in Sessions :
          (op[s] = "process_command" /\ pc[s] = "verify")
              => /\ action[s].action_type \in {"click", "type", "scroll", "shortcut"}
                 /\ \A new_context \in Contexts : _verify(action[s], context[s], new_context)
                 /\ Verify(s)
                        => \/ /\ pc'[s] = "done"
                              /\ result'[s] = SuccessResult(action[s], attempt[s])
                              /\ result'[s].success
                              /\ result'[s].verification_passed
                              /\ injLog[s][Len(injLog[s])].ok
                              /\ injLog[s][Len(injLog[s])].attempt = attempt[s]
                           \/ /\ attempt[s] < MAX_RETRIES
                              /\ pc'[s] = "perceive"
                              /\ result'[s] = NoResult
                           \/ /\ attempt[s] = MAX_RETRIES
                              /\ result'[s] = ErrorResult("sensing", MAX_RETRIES)]_vars

\* C30 witness: "click element 1" failed in the controller in the first
\* attempt and succeeded in the second, the re-perceive returned, and
\* process_command returned success with verification_passed and
\* attempts = 2.
C30_Witness ==
    \E s \in Sessions :
        /\ Returned(s, "process_command")
        /\ cmd[s] = <<"click", "element", "1">>
        /\ result[s] = SuccessResult(action[s], 2)
        /\ result[s].verification_passed
        /\ Len(injLog[s]) = 2
        /\ ~injLog[s][1].ok
        /\ injLog[s][2].ok
        /\ perceives[s] = 3

\* C31: within one process_command the phases follow one another in order.
\* An attempt is planned only right after its own perceive returned; the
\* action is executed only right after it was planned, and it is the action
\* planned from, and sent to the controller against, the context of that
\* perceive; verify is entered only from an execute whose controller call
\* returned True in the same attempt; the context changes only in a perceive
\* step; and the attempt counter moves only by one, at the end of an
\* attempt, to a state that perceives first.
C31_PhaseOrder ==
    [][\A s \in Sessions :
          (op[s] = "process_command" /\ op'[s] = "process_command")
              => /\ (pc'[s] = "plan" /\ pc[s] # "plan")
                        => /\ pc[s] = "perceive"
                           /\ perceives'[s] = perceives[s] + 1
                           /\ attempt'[s] = attempt[s]
                 /\ (pc'[s] = "execute" /\ pc[s] # "execute")
                        => /\ pc[s] = "plan"
                           /\ action'[s] = PlannedAction(cmd[s], context[s])
                           /\ attempt'[s] = attempt[s]
                 /\ injLog'[s] # injLog[s]
                        => /\ pc[s] = "execute"
                           /\ action[s] = PlannedAction(cmd[s], context[s])
                           /\ injLog'[s][Len(injLog'[s])].call = _execute(action[s], context[s])
                           /\ injLog'[s][Len(injLog'[s])].attempt = attempt[s]
                 /\ (pc'[s] = "verify" /\ pc[s] # "verify")
                        => /\ pc[s] = "execute"
                           /\ injLog'[s] # injLog[s]
                           /\ injLog'[s][Len(injLog'[s])].ok
                           /\ attempt'[s] = attempt[s]
                 /\ context'[s] # context[s] => pc[s] = "perceive"
                 /\ attempt'[s] # attempt[s]
                        => /\ attempt'[s] = attempt[s] + 1
                           /\ pc[s] \in {"perceive", "execute", "verify"}
                           /\ pc'[s] = "perceive"]_vars

\* C31 witness: "click the save button" failed in the controller in the
\* first attempt, on the Submit screen, and succeeded in the second, on the
\* screen with the single Save button, where it was planned as a click on
\* element 1: two plans, four perceives, two controller calls.
C31_Witness ==
    \E s \in Sessions :
        /\ Returned(s, "process_command")
        /\ cmd[s] = <<"click", "the", "save", "button">>
        /\ result[s].success
        /\ result[s].attempts = 2
        /\ plans[s] = 2
        /\ perceives[s] = 4
        /\ Len(injLog[s]) = 2
        /\ injLog[s][1].call.elem = 2
        /\ injLog[s][2].call.elem = 1
        /\ action[s].target_element = 1

\* Route(s, u, a), with what it leaves alone and what it resets stated
\* first.
RouteStep(s, u, a) ==
    /\ now' = now
    /\ cacheRet' = cacheRet
    /\ routerRes'[s] = NoRouterResult
    /\ Route(s, u, a)

\* RouterExecute(s, a, r), with what it leaves alone stated first.
ExecuteStep(s, a, r) ==
    /\ now' = now
    /\ hits' = hits
    /\ misses' = misses
    /\ plan' = plan
    /\ RouterExecute(s, a, r)

\* The step writes the entry of key k as a successful text-search execution
\* for the application and target of k does: with the coordinate the
\* text-search service answered and the time of the call.
WrittenByTextSearch(k) ==
    \E s \in Sessions, a \in Apps, r \in Responses :
        /\ plan[s].method = "ocr"
        /\ ExecuteStep(s, a, r)
        /\ routerRes'[s].success
        /\ k = CacheKey(a, plan[s].target)
        /\ r.xy # <<>>
        /\ cache'[k] = CacheEntry(r.xy[1], r.xy[2], now)

\* C32: a cache entry is inserted or changed only by a successful
\* text-search execution for that same (app, target), which stamps it with
\* the time of the call; route serves on the cached tier only the
\* coordinate of an entry that is in the cache and younger than the TTL, so
\* one written less than TTL earlier and not invalidated since; route
\* inserts nothing, and the cached and full-visual executions leave the
\* cache as it was.
C32_CachedComesFromTextSearch ==
    [][/\ \A k \in DOMAIN cache' :
             (k \notin DOMAIN cache \/ cache'[k] # cache[k]) => WrittenByTextSearch(k)
       /\ \A s \in Sessions : \A a \in Apps :
             \/ /\ DOMAIN cache' \subseteq DOMAIN cache
                /\ plan'[s].method = "cached"
                       => LET key == CacheKey(a, plan'[s].target)
                          IN  /\ key \in DOMAIN cache
                              /\ now - cache[key].timestamp < ttl
                              /\ plan'[s].coordinates = <<cache[key].x, cache[key].y>>
             \/ \A u \in RouterUtterances : ~RouteStep(s, u, a)
       /\ \A s \in Sessions : \A a \in Apps : \A r \in Responses :
             \/ cache' = cache
             \/ ~(plan[s].method \in {"cached", "vlm"} /\ ExecuteStep(s, a, r))
       /\ \A s \in Sessions : \A a \in Apps :
             \/ \A k \in DOMAIN cache' : k[1] # Lower(a)
             \/ ~Invalidate(s, a)]_vars

\* C32 witness: text search had written the coordinate of "submit" for
\* "calculator" and for "safari", the entries of "Safari" were invalidated,
\* and a later route for "Calculator" was served on the cached tier with
\* the coordinate of the entry that is left.
C32_Witness ==
    \E s \in Sessions :
        LET key == CacheKey("Calculator", <<"s","u","b","m","i","t">>)
        IN  /\ plan[s].method = "cached"
            /\ LiveEntry(key)
            /\ plan[s].coordinates = <<cache[key].x, cache[key].y>>
            /\ cacheRet[s] = CacheRet("invalidate", "Safari", <<>>, <<1>>)
            /\ DOMAIN cache = {key}
            /\ hits = 1

\* The variables of the process_command call of session s.
CallState(s) ==
    <<pc[s], op[s], cmd[s], attempt[s], context[s], action[s], result[s],
      perceives[s], plans[s], injLog[s]>>

\* The results process_command can return from attempt k with the action
\* planned in it.
OwnResults(planned, k) ==
    { ConfirmationResult(planned, k), ExecuteFailedResult(planned, k),
      SuccessResult(planned, k), ErrorResult("sensing", k) }

\* C33: two process_command calls interleaved on the shared kernel keep
\* their own attempt counter, context and planned action: a step that
\* changes a variable of one call leaves every variable of the other as it
\* was; each call stays
\* within MAX_RETRIES attempts and plans; its action is the one planned
\* from its own command and context; and the result it returns is built
\* from its own action and attempt counter.
C33_SessionsIndependent ==
    [][\A s \in Sessions :
          /\ \A o \in Sessions \ {s} :
                CallState(s)' # CallState(s) => CallState(o)' = CallState(o)
          /\ attempt'[s] <= MAX_RETRIES
          /\ plans'[s] <= MAX_RETRIES
          /\ Plan(s) => action'[s] = PlannedAction(cmd[s], context[s])
          /\ pc'[s] \in {"execute", "verify"}
                => action'[s] = PlannedAction(cmd'[s], context'[s])
          /\ (pc'[s] = "done" /\ pc[s] # "done")
                => result'[s] \in OwnResults(action'[s], attempt[s])]_vars

\* C33 witness: both calls are in flight with different counters and
\* actions: session 1 is about to plan "Delete this file" in its second
\* attempt while session 2 verifies the scroll of its third attempt.
C33_Witness ==
    /\ op[1] = "process_command"
    /\ cmd[1] = <<"Delete", "this", "file">>
    /\ pc[1] = "plan"
    /\ attempt[1] = 2
    /\ op[2] = "process_command"
    /\ cmd[2] = <<"scroll", "down">>
    /\ pc[2] = "verify"
    /\ attempt[2] = MAX_RETRIES
    /\ action[2].action_type = "scroll"
    /\ action[1] # action[2]
    /\ Len(injLog[2]) = 3

\* C34 as stated: process_with_confirmation(command, confirmed = true)
\* never raises: whatever the sensing, planning or input-injection
\* collaborator does, it returns a result, and the result of a call in
\* which a collaborator raised or failed has success = false.
C34_AsStated ==
    \A s \in Sessions :
        (Returned(s, "process_with_confirmation") /\ confirmedArg[s])
            => /\ ~result[s].raised
               /\ (perceives[s] = 0 \/ plans[s] = 0 \/ ~InjectionAlwaysSucceeded(s))
                      => ~result[s].success

\* C35 as stated: within one process_command, a controller call that
\* returned True is the last controller call of the command, whatever the
\* sensing collaborator does, raising during verification included.
C35_AsStated ==
    \A s \in Sessions :
        op[s] = "process_command"
            => \A i \in 1..Len(injLog[s]) : injLog[s][i].ok => i = Len(injLog[s])

\* C36: every result process_command returns has 1 <= attempts <=
\* MAX_RETRIES and a non-empty message; if it has success set it has
\* verification_passed set and needs_confirmation unset; if it has
\* needs_confirmation set it has success unset and a non-empty
\* confirmation prompt.  Every result process_with_confirmation returns
\* has attempts 0 or 1 and needs_confirmation unset.
C36_ResultShape ==
    \A s \in Sessions :
        /\ Returned(s, "process_command")
              => /\ ~result[s].raised
                 /\ result[s].attempts \in 1..MAX_RETRIES
                 /\ result[s].message.text # ""
                 /\ result[s].success
                        => result[s].verification_passed /\ ~result[s].needs_confirmation
                 /\ result[s].needs_confirmation
                        => /\ ~result[s].success
                           /\ result[s].confirmation_prompt.text # ""
                           /\ result[s].confirmation_prompt.words # <<>>
        /\ (Returned(s, "process_with_confirmation") /\ ~result[s].raised)
              => /\ result[s].attempts \in {0, 1}
                 /\ result[s].attempts = 0 <=> ~confirmedArg[s]
                 /\ ~result[s].needs_confirmation
                 /\ result[s].message.text # ""

\* C36 witness: process_command returned success from its last attempt,
\* after two earlier attempts whose controller calls failed.
C36_Witness ==
    \E s \in Sessions :
        /\ Returned(s, "process_command")
        /\ result[s].success
        /\ result[s].verification_passed
        /\ result[s].attempts = MAX_RETRIES
        /\ result[s].message.text # ""
        /\ Len(injLog[s]) = MAX_RETRIES
        /\ ~injLog[s][1].ok
        /\ ~injLog[s][2].ok

\* How far the process_command call of session s has come: the attempts
\* begun, and within the attempt the phase.
Progress(s) ==
    4 * attempt[s] + CASE pc[s] = "perceive" -> 0
                       [] pc[s] = "plan" -> 1
                       [] pc[s] = "execute" -> 2
                       [] pc[s] = "verify" -> 3
                       [] OTHER -> 0

\* C37: process_command terminates with a result when every collaborator
\* call returns or raises: a call that has started returns a result, not
\* an exception; every step of it either returns or moves it forward to a
\* later phase or attempt, of which there are at most 4 * MAX_RETRIES; and
\* it makes at most MAX_RETRIES plan calls, at most MAX_RETRIES controller
\* calls and at most 2 * MAX_RETRIES perceive calls.
C37_BoundedTermination ==
    /\ \A s \in Sessions :
          (op[s] = "process_command" /\ pc[s] # "done")
              ~> (Returned(s, "process_command") /\ ~result[s].raised /\ result[s] # NoResult)
    /\ [][\A s \in Sessions :
            op[s] = "process_command"
                => /\ (Perceive(s) \/ Plan(s) \/ Execute(s) \/ Verify(s))
                          => pc'[s] = "done" \/ Progress(s)' > Progress(s)
                   /\ Progress(s)' <= 4 * MAX_RETRIES + 3
                   /\ plans'[s] <= MAX_RETRIES
                   /\ Len(injLog'[s]) <= MAX_RETRIES
                   /\ perceives'[s] <= 2 * MAX_RETRIES]_vars

\* C37 witness: process_command returned after the largest number of
\* collaborator calls: MAX_RETRIES plans, MAX_RETRIES controller calls and
\* 2 * MAX_RETRIES perceives.
C37_Witness ==
    \E s \in Sessions :
        /\ Returned(s, "process_command")
        /\ plans[s] = MAX_RETRIES
        /\ Len(injLog[s]) = MAX_RETRIES
        /\ perceives[s] = 2 * MAX_RETRIES
        /\ result[s] # NoResult

\* C38: executing a cached plan leaves the cache and its counters as they
\* were, whether the click succeeds, fails or raises; so after a failed
\* cached click, while the entry is younger than the TTL, a route for the
\* same application and target returns the cached plan with the same
\* coordinate again.
C38_CachedExecuteKeepsCache ==
    [][\A s \in Sessions : \A a \in Apps :
          /\ \A r \in Responses :
                (plan[s].method = "cached" /\ ExecuteStep(s, a, r))
                    => /\ cache' = cache
                       /\ hits' = hits
                       /\ misses' = misses
                       /\ routerRes'[s].method = "cached"
          /\ \A u \in RouterUtterances :
                LET key == CacheKey(a, plan[s].target)
                IN  (/\ plan[s].method = "cached"
                     /\ routerRes[s].method = "cached"
                     /\ ~routerRes[s].success
                     /\ Extracted[u].target = plan[s].target
                     /\ LiveEntry(key)
                     /\ RouteStep(s, u, a))
                        => /\ plan'[s].method = "cached"
                           /\ plan'[s].target = plan[s].target
                           /\ plan'[s].coordinates = <<cache[key].x, cache[key].y>>
                           /\ cache' = cache]_vars

\* C38 witness: the click of a cached plan for "submit" failed, one time
\* unit after the entry was written, and the entry is in the cache with
\* the coordinate of the plan, younger than the TTL; the route that
\* returned the plan is the only lookup made so far.
C38_Witness ==
    \E s \in Sessions :
        LET key == CacheKey("Calculator", plan[s].target)
        IN  /\ plan[s].method = "cached"
            /\ routerRes[s] = RouterResult(FALSE, "response.text", "cached")
            /\ posts[s] # <<>>
            /\ LiveEntry(key)
            /\ plan[s].coordinates = <<cache[key].x, cache[key].y>>
            /\ now = cache[key].timestamp + 1
            /\ hits = 1
            /\ misses = 0

C40_AsStated ==
    /\ \A s \in Sessions : ~frame[s].raised
    /\ \A s \in Sessions :
          (frame[s].call = "get" /\ frame[s].line = 0 /\ frame[s].expired)
              => cacheRet[s].ret = NoCoords
    /\ InFlight = {} => hits + misses = frame[1].completed + frame[2].completed

====
